---- MODULE Spec2Model ----
(***************************************************************************)
(* Model of src/db/scrape_class_data.py: the scraper that pages through    *)
(* the class search, classifies every line of every response, and writes   *)
(* the JSON document by hand, one print at a time.                         *)
(*                                                                         *)
(* Text is modelled as it is in the program: a Python str is a sequence of *)
(* one-character strings, and the string operations of the program         *)
(* (rfind, the backward scan, split, replace, strip, int, slicing) are     *)
(* operators over such sequences.  Indices passed to these operators are   *)
(* Python's zero-based indices; element i of a str s is s[i + 1] here.     *)
(***************************************************************************)
EXTENDS Integers, Sequences, FiniteSets, TLC

(***************************************************************************)
(* Bounds of the model.                                                    *)
(***************************************************************************)
\* Largest number of POST requests the server is asked to answer in a run.
MaxRequests == 4
\* Longest location text (without the blanks around it) handed to the
\* location extraction.
MaxLocLen == 6
\* Largest number of tokens of a time string handed to the normalisation.
MaxTokens == 3
\* Largest number of tests of a suite.
MaxTests == 4
\* Largest number of rows of the meetings table load_room_data reads.
MaxPlaces == 3
\* Largest number of time strings of a DayTime block handed to the
\* extraction.
MaxTimes == 3

(***************************************************************************)
(* Python str operations.                                                  *)
(***************************************************************************)
\* s[a:b] for 0 <= a, b (Python clamps b to len(s); a >= b gives "").
Slice(s, a, b) ==
    LET hi == IF b > Len(s) THEN Len(s) ELSE b
    IN  IF a >= hi THEN << >> ELSE SubSeq(s, a + 1, hi)

\* s[::-1]
Reverse(s) ==
    [i \in 1..Len(s) |-> s[Len(s) + 1 - i]]

\* s.startswith(p, i): p occurs in s at zero-based index i.
MatchAt(s, p, i) ==
    /\ i >= 0
    /\ i + Len(p) <= Len(s)
    /\ \A j \in 1..Len(p) : s[i + j] = p[j]

\* p in s
Contains(s, p) ==
    \E i \in 0..Len(s) : MatchAt(s, p, i)

\* s.find(p, from): lowest index >= from where p occurs, or -1.
FindFrom(s, p, from) ==
    LET hits == {i \in from..Len(s) : MatchAt(s, p, i)}
    IN  IF hits = {} THEN -1
        ELSE CHOOSE i \in hits : \A j \in hits : i <= j

\* s.rfind(p, 0, end): highest index where p occurs inside s[0:end], or -1.
\* A negative end counts from the end of s, as in Python.
RFindIn(s, p, end) ==
    LET e    == IF end < 0
                THEN (IF Len(s) + end < 0 THEN 0 ELSE Len(s) + end)
                ELSE (IF end > Len(s) THEN Len(s) ELSE end)
        hits == {i \in 0..e : MatchAt(s, p, i) /\ i + Len(p) <= e}
    IN  IF hits = {} THEN -1
        ELSE CHOOSE i \in hits : \A j \in hits : i >= j

\* s.rfind(p)
RFind(s, p) ==
    RFindIn(s, p, Len(s))

\* The backward scan the program repeats for every field:
\*     s = ""
\*     for i in range(start, 0, -1):
\*         if ln[i] == stop: break
\*         s += ln[i]
\* The result is s, that is the characters in the order they were met
\* (reversed text).  Index 0 of the line is never looked at.
RECURSIVE ScanBack(_, _, _)
ScanBack(ln, i, stop) ==
    IF i <= 0 THEN << >>
    ELSE IF ln[i + 1] = stop THEN << >>
    ELSE <<ln[i + 1]>> \o ScanBack(ln, i - 1, stop)

\* s.split(sep) for a non-empty sep: the list of the parts.
RECURSIVE Split(_, _)
Split(s, sep) ==
    LET i == FindFrom(s, sep, 0)
    IN  IF i = -1 THEN <<s>>
        ELSE <<Slice(s, 0, i)>> \o Split(Slice(s, i + Len(sep), Len(s)), sep)

\* s.replace(old, new): every non-overlapping occurrence, left to right.
RECURSIVE Replace(_, _, _)
Replace(s, old, new) ==
    LET i == FindFrom(s, old, 0)
    IN  IF i = -1 THEN s
        ELSE Slice(s, 0, i) \o new
             \o Replace(Slice(s, i + Len(old), Len(s)), old, new)

\* s.strip(" ")
RECURSIVE LStrip(_)
LStrip(s) ==
    IF s # << >> /\ Head(s) = " " THEN LStrip(Tail(s)) ELSE s

Strip(s) ==
    Reverse(LStrip(Reverse(LStrip(s))))

Digits == <<"0", "1", "2", "3", "4", "5", "6", "7", "8", "9">>

IsDigit(c) ==
    \E d \in 1..10 : Digits[d] = c

DigitVal(c) ==
    (CHOOSE d \in 1..10 : Digits[d] = c) - 1

\* int(s) of a str of decimal digits; the empty str and a str with a
\* letter, a tag character or an inner space raise ValueError.  (Signs,
\* underscores and surrounding blanks, which int() also accepts, do not
\* occur in the counters of the feed lines below.)
IsInt(s) ==
    /\ s # << >>
    /\ \A i \in 1..Len(s) : IsDigit(s[i])

RECURSIVE IntOf(_)
IntOf(s) ==
    IF s = << >> THEN 0
    ELSE 10 * IntOf(SubSeq(s, 1, Len(s) - 1)) + DigitVal(s[Len(s)])

(***************************************************************************)
(* The line classifier and the field extraction of scrape_class_data.      *)
(* The program tests the markers in this order and the first match wins.   *)
(***************************************************************************)
MarkProgress    == <<"<","/","b",">"," ","-"," ","<","b",">">>
MarkHeading     == <<"<","d","i","v"," ","c","l","a","s","s","=","\"","p",
                     "a","n","e","l","-","h","e","a","d","i","n","g"," ",
                     "p","a","n","e","l","-","h","e","a","d","i","n","g",
                     "-","c","u","s","t","o","m","\"",">">>
MarkNumber      == <<"C","l","a","s","s"," ","N","u","m","b","e","r",":">>
MarkInstructor  == <<"I","n","s","t","r","u","c","t","o","r",":">>
MarkLocation    == <<"L","o","c","a","t","i","o","n",":">>
MarkDayTime     == <<"D","a","y"," ","a","n","d"," ","T","i","m","e",":">>
MarkMode        == <<"I","n","s","t","r","u","c","t","i","o","n"," ","M",
                     "o","d","e",":">>

EndB   == <<"<","/","b",">">>
EndA   == <<"<","/","a",">">>
EndDiv == <<"<","/","d","i","v",">">>
Br     == <<"<","b","r",">">>

\* The kind of a line: the first marker, in the program's order, it holds.
Classify(ln) ==
    IF Contains(ln, MarkProgress) THEN "Progress"
    ELSE IF Contains(ln, MarkHeading) THEN "Heading"
    ELSE IF Contains(ln, MarkNumber) THEN "Number"
    ELSE IF Contains(ln, MarkInstructor) THEN "Instructors"
    ELSE IF Contains(ln, MarkLocation) THEN "Location"
    ELSE IF Contains(ln, MarkDayTime) THEN "DayTime"
    ELSE IF Contains(ln, MarkMode) THEN "Mode"
    ELSE "None"

\* Progress: the text handed to int() for total_classes ...
TotalText(ln) ==
    Reverse(ScanBack(ln, RFind(ln, EndB) - 1, ">"))

\* ... and for current_classes (the second-to-last "</b>").
CurrentText(ln) ==
    Reverse(ScanBack(ln, RFindIn(ln, EndB, RFind(ln, EndB)) - 1, ">"))

\* FinalPage with the comparison made strict.
FinalPage_Strict(current_classes, total_classes) ==
    current_classes > total_classes

\* If on the final page, stop sending requests.
FinalPage(current_classes, total_classes) ==
    current_classes >= total_classes

\* Heading: the text before the last "</a>", split on the triple &nbsp;.
HeadingParts(ln) ==
    Split(Reverse(ScanBack(ln, RFind(ln, EndA) - 1, ">")),
          <<"&","n","b","s","p",";","&","n","b","s","p",";","&","n","b","s",
            "p",";">>)

HeadingCode(ln) ==
    Replace(HeadingParts(ln)[1], <<" ">>, << >>)

HeadingName(ln) ==
    Replace(HeadingParts(ln)[2], <<"&","a","m","p",";">>, <<"&">>)

\* Class number: printed as it is found, without conversion.
NumberText(ln) ==
    Reverse(ScanBack(ln, RFind(ln, EndA) - 1, ">"))

\* Instructors: scan back to "/", drop 3 characters, split on <br>.
InstructorList(ln) ==
    LET s == ScanBack(ln, RFind(ln, EndDiv) - 1, "/")
    IN  Split(Reverse(Slice(s, 0, Len(s) - 3)), Br)

\* Location: the stripped text ...
LocationText(ln) ==
    Strip(Reverse(ScanBack(ln, RFind(ln, EndDiv) - 1, ">")))

\* LocationName cutting one character less.
LocationName_Drop4(location) ==
    IF Len(location) = 3 THEN << >>
    ELSE Slice(location, 4, Len(location))

\* ... made empty when it is a bare identifier like SEM, otherwise
\* without the identifier.
LocationName(location) ==
    IF Len(location) = 3 THEN << >>
    ELSE Slice(location, 5, Len(location))

\* .replace("Cancelled Cancelled", "Cancelled")
CollapseCancelled(s) ==
    Replace(s, <<"C","a","n","c","e","l","l","e","d"," ","C","a","n","c",
                 "e","l","l","e","d">>, <<"C","a","n","c","e","l","l","e",
                                          "d">>)

\* Day and time: scan back to "/", drop 2 characters, strip, normalise,
\* split on <br>.
DayTimeList(ln) ==
    LET s == ScanBack(ln, RFind(ln, EndDiv) - 1, "/")
    IN  Split(CollapseCancelled(
                  Replace(Strip(Reverse(Slice(s, 0, Len(s) - 2))),
                          <<"&","n","b","s","p",";">>, << >>)),
              Br)

\* Mode.
ModeText(ln) ==
    Reverse(ScanBack(ln, RFind(ln, EndB) - 1, ">"))

(***************************************************************************)
(* What each print of the program appends to the file.                     *)
(***************************************************************************)
HeaderOut ==
    <<"{","\n"," "," "," "," ","\"","c","l","a","s","s","e","s","\"",":",
      " ","[","\n">>

HeadingOut(code, name) ==
    <<" "," "," "," "," "," "," "," ","{","\n"," "," "," "," "," "," "," ",
      " "," "," "," "," ","\"","c","o","d","e","\"",":"," ","\"">> \o code
    \o <<"\"",",","\n"," "," "," "," "," "," "," "," "," "," "," "," ","\"",
         "n","a","m","e","\"",":"," ","\"">> \o name \o <<"\"",",","\n">>

NumberOut(number) ==
    <<" "," "," "," "," "," "," "," "," "," "," "," ","\"","n","u","m","b",
      "e","r","\"",":"," ">> \o number \o <<",","\n">>

RECURSIVE InstructorItems(_, _)
InstructorItems(instructors, index) ==
    <<" "," "," "," "," "," "," "," "," "," "," "," "," "," "," "," ","\"">> \o instructors[index] \o <<"\"">>
    \o (IF index = Len(instructors)
        THEN <<"\n"," "," "," "," "," "," "," "," "," "," "," "," ","]",",",
               "\n"," "," "," "," "," "," "," "," "," "," "," "," ","\"",
               "m","e","e","t","i","n","g","s","\"",":"," ","[","\n">>
        ELSE <<",","\n">> \o InstructorItems(instructors, index + 1))

InstructorsOut(instructors) ==
    <<" "," "," "," "," "," "," "," "," "," "," "," ","\"","i","n","s","t",
      "r","u","c","t","o","r","s","\"",":"," ","[","\n">> \o InstructorItems(instructors, 1)

\* If there are multiple meetings, add a comma.
LocationOut(comma, location) ==
    (IF comma THEN <<",","\n">> ELSE << >>)
    \o <<" "," "," "," "," "," "," "," "," "," "," "," "," "," "," "," ",
         "[","\n"," "," "," "," "," "," "," "," "," "," "," "," "," "," ",
         " "," "," "," "," "," ","\"">> \o location \o <<"\"",
                                                                     ",",
                                                                     "\n">>

\* DayTimeOut printing the first time string only.
DayTimeOut_FirstOnly(times) ==
    <<" "," "," "," "," "," "," "," "," "," "," "," "," "," "," "," "," ",
      " "," "," ","\"">> \o times[1]
    \o <<"\"","\n"," "," "," "," "," "," "," "," "," "," "," "," "," "," ",
         " "," ","]">>

\* One time string, or the first two of several.
DayTimeOut(times) ==
    IF Len(times) = 1
    THEN <<" "," "," "," "," "," "," "," "," "," "," "," "," "," "," "," ",
           " "," "," "," ","\"">> \o times[1]
         \o <<"\"","\n"," "," "," "," "," "," "," "," "," "," "," "," "," ",
              " "," "," ","]">>
    ELSE <<" "," "," "," "," "," "," "," "," "," "," "," "," "," "," "," ",
           " "," "," "," ","\"">> \o times[1]
         \o <<"\"",",","\n"," "," "," "," "," "," "," "," "," "," "," "," ",
              " "," "," "," "," "," "," "," ","\"">> \o times[2]
         \o <<"\"","\n"," "," "," "," "," "," "," "," "," "," "," "," "," ",
              " "," "," ","]">>

ModeOut(comma, mode, stamp) ==
    (IF comma THEN <<"\n">> ELSE << >>)
    \o <<" "," "," "," "," "," "," "," "," "," "," "," ","]",",","\n"," ",
         " "," "," "," "," "," "," "," "," "," "," ","\"","m","o","d","e",
         "\"",":"," ","\"">> \o mode \o <<"\"",",","\n">>
    \o <<" "," "," "," "," "," "," "," "," "," "," "," ","\"","l","a","s",
         "t","_","u","p","d","a","t","e","d","\"",":"," ","\"">> \o stamp
    \o <<"\"","\n"," "," "," "," "," "," "," "," ","}",",","\n">>

\* print("    ]\n}", file=f) ends the text with a newline.
FooterOut ==
    <<" "," "," "," ","]","\n","}","\n">>

\* FixupPos one byte off.
FixupPos_OffByOne(n) ==
    n - 9

\* f.seek(-10, 2): the zero-based position of the byte f.write(b" ")
\* overwrites in a file of n bytes.
FixupPos(n) ==
    n - 10

\* NextPayload without the reset of rec_start on the first "next".
NextPayload_NoReset(p) ==
    [p EXCEPT !.rec_start = p.rec_start + 100, !.action = "next"]

\* NextPayload adding the page size to the wrong key.
NextPayload_WrongKey(p) ==
    LET q == [p EXCEPT !.rec_dur = p.rec_dur + 100]
    IN  IF q.action # "next"
        THEN [q EXCEPT !.action = "next", !.rec_start = 0]
        ELSE q

\* The payload of the request after the one sent with payload p.
NextPayload(p) ==
    LET q == [p EXCEPT !.rec_start = p.rec_start + 100]
    IN  IF q.action # "next"
        THEN [q EXCEPT !.action = "next", !.rec_start = 0]
        ELSE q

\* RequestFailed that lets server errors through.
RequestFailed_ClientOnly(status) ==
    status # 200 /\ status < 500

\* res.status_code != HTTPStatus.OK.value
RequestFailed(status) ==
    status # 200

(***************************************************************************)
(* The feed.  The server is the environment: every response is one of the  *)
(* pages below, each a list of lines in the markup the program scans for.  *)
(***************************************************************************)
LnNoise    == <<"<","d","i","v"," ","c","l","a","s","s","=","\"","r","o",
                "w","\"",">">>
\* Progress lines: "current" is the second counter from the end.
LnProgMore == <<"<","b",">","1","<","/","b",">"," ","-"," ","<","b",">","2",
                "<","/","b",">"," ","o","f"," ","<","b",">","5","<","/","b",
                ">">>
LnProgDone == <<"<","b",">","3","<","/","b",">"," ","-"," ","<","b",">","5",
                "<","/","b",">"," ","o","f"," ","<","b",">","5","<","/","b",
                ">">>

\* Record A: one instructor, one meeting with one time.
A_head == <<"<","d","i","v"," ","c","l","a","s","s","=","\"","p","a","n",
            "e","l","-","h","e","a","d","i","n","g"," ","p","a","n","e","l",
            "-","h","e","a","d","i","n","g","-","c","u","s","t","o","m",
            "\"",">","<","a",">","C","S","E"," ","1","2","&","n","b","s",
            "p",";","&","n","b","s","p",";","&","n","b","s","p",";","S","y",
            "s","<","/","a",">">>
A_num  == <<"C","l","a","s","s"," ","N","u","m","b","e","r",":"," ","<","a",
            ">","1","0","1","<","/","a",">">>
A_ins  == <<"<","b",">","I","n","s","t","r","u","c","t","o","r",":","<","/",
            "b",">"," ","S","t","a","f","f","<","/","d","i","v",">">>
A_loc  == <<"<","b",">","L","o","c","a","t","i","o","n",":","<","/","b",">",
            " ","L","E","C",":"," ","S","o","c"," ","2","<","/","d","i","v",
            ">">>
A_time == <<"<","b",">","D","a","y"," ","a","n","d"," ","T","i","m","e",":",
            "<","/","b",">"," ","M","W","F"," ","9","A","M","<","/","d","i",
            "v",">">>
A_mode == <<"I","n","s","t","r","u","c","t","i","o","n"," ","M","o","d","e",
            ":"," ","<","b",">","I","n"," ","P","e","r","s","o","n","<","/",
            "b",">">>

\* Record B: two instructors, a bare location, a DayTime block of two times.
B_head == <<"<","d","i","v"," ","c","l","a","s","s","=","\"","p","a","n",
            "e","l","-","h","e","a","d","i","n","g"," ","p","a","n","e","l",
            "-","h","e","a","d","i","n","g","-","c","u","s","t","o","m",
            "\"",">","<","a",">","A","M"," ","3","&","n","b","s","p",";",
            "&","n","b","s","p",";","&","n","b","s","p",";","A","&","a","m",
            "p",";","B","<","/","a",">">>
B_num  == <<"C","l","a","s","s"," ","N","u","m","b","e","r",":"," ","<","a",
            ">","2","0","2","<","/","a",">">>
B_ins  == <<"<","b",">","I","n","s","t","r","u","c","t","o","r",":","<","/",
            "b",">"," ","L","e","e",",","J",".","<","b","r",">","S","t","a",
            "f","f","<","/","d","i","v",">">>
B_loc  == <<"<","b",">","L","o","c","a","t","i","o","n",":","<","/","b",">",
            " ","S","E","M","<","/","d","i","v",">">>
B_time == <<"<","b",">","D","a","y"," ","a","n","d"," ","T","i","m","e",":",
            "<","/","b",">"," ","T","u"," ","1","P","M","<","b","r",">","T",
            "h"," ","2","P","M","<","/","d","i","v",">">>
B_mode == <<"I","n","s","t","r","u","c","t","i","o","n"," ","M","o","d","e",
            ":"," ","<","b",">","H","y","b","r","i","d","<","/","b",">">>

\* Record C: two meetings, the second one cancelled.
C_head  == <<"<","d","i","v"," ","c","l","a","s","s","=","\"","p","a","n",
             "e","l","-","h","e","a","d","i","n","g"," ","p","a","n","e",
             "l","-","h","e","a","d","i","n","g","-","c","u","s","t","o",
             "m","\"",">","<","a",">","H","I","S"," ","5","&","n","b","s",
             "p",";","&","n","b","s","p",";","&","n","b","s","p",";","A",
             "r","t","<","/","a",">">>
C_num   == <<"C","l","a","s","s"," ","N","u","m","b","e","r",":"," ","<",
             "a",">","3","0","3","<","/","a",">">>
C_ins   == <<"<","b",">","I","n","s","t","r","u","c","t","o","r",":","<",
             "/","b",">"," ","K","i","m",",","P",".","<","/","d","i","v",
             ">">>
C_loc1  == <<"<","b",">","L","o","c","a","t","i","o","n",":","<","/","b",
             ">"," ","L","E","C",":"," ","A","u","d"," ","1","<","/","d",
             "i","v",">">>
C_time1 == <<"<","b",">","D","a","y"," ","a","n","d"," ","T","i","m","e",
             ":","<","/","b",">"," ","M"," ","3","P","M","<","/","d","i",
             "v",">">>
C_loc2  == <<"<","b",">","L","o","c","a","t","i","o","n",":","<","/","b",
             ">"," ","D","I","S",":"," ","O","n","l","i","n","e","<","/",
             "d","i","v",">">>
C_time2 == <<"<","b",">","D","a","y"," ","a","n","d"," ","T","i","m","e",
             ":","<","/","b",">"," ","&","n","b","s","p",";","C","a","n",
             "c","e","l","l","e","d"," ","C","a","n","c","e","l","l","e",
             "d","<","/","d","i","v",">">>
C_mode  == <<"I","n","s","t","r","u","c","t","i","o","n"," ","M","o","d",
             "e",":"," ","<","b",">","O","n","l","i","n","e","<","/","b",
             ">">>

\* Lines that carry a label but not the markers the scan relies on.
X_locNoEnd   == <<"<","b",">","L","o","c","a","t","i","o","n",":","<","/",
                  "b",">"," ","L","E","C",":"," ","S","o","c"," ","2">>
X_headNoEnd  == <<"<","d","i","v"," ","c","l","a","s","s","=","\"","p","a",
                  "n","e","l","-","h","e","a","d","i","n","g"," ","p","a",
                  "n","e","l","-","h","e","a","d","i","n","g","-","c","u",
                  "s","t","o","m","\"",">","<","a",">","C","S","E"," ","1",
                  "2">>
X_numNoStart == <<"C","l","a","s","s"," ","N","u","m","b","e","r",":"," ",
                  "1","0","1","<","/","a",">">>

RecA == <<A_head, A_num, A_ins, A_loc, A_time, A_mode>>
RecB == <<B_head, B_num, B_ins, B_loc, B_time, B_mode>>
RecC == <<C_head, C_num, C_ins, C_loc1, C_time1, C_loc2, C_time2, C_mode>>

\* Pages whose records follow the feed's field order.
PgMoreA     == <<LnNoise, LnProgMore>> \o RecA
PgSilentB   == RecB
PgDoneC     == <<LnProgDone>> \o RecC
PgDoneEmpty == <<LnNoise, LnProgDone>>
PgDoneAMore == <<LnProgDone>> \o RecA \o <<LnProgMore>>
\* Pages that break the field order or hold a malformed line.
PgTwoLoc    == <<LnProgDone, A_head, A_num, A_ins, A_loc, C_loc2, A_time,
                 A_mode>>
PgHeadEarly == <<LnProgDone, A_head, A_num, A_ins, A_loc, A_time>> \o RecB
PgLocNoEnd  == <<LnProgDone, A_head, A_num, A_ins, X_locNoEnd, A_loc,
                 A_time, A_mode>>
PgHeadNoEnd == <<LnProgDone, X_headNoEnd>>
PgNumNoStart == <<LnProgDone, A_head, X_numNoStart, A_ins, A_loc, A_time,
                  A_mode>>

PageIds ==
    {"MoreA", "SilentB", "DoneC", "DoneEmpty", "DoneAMore",
     "TwoLoc", "HeadEarly", "LocNoEnd", "HeadNoEnd", "NumNoStart"}

PageLines(id) ==
    CASE id = "MoreA"     -> PgMoreA
      [] id = "SilentB"   -> PgSilentB
      [] id = "DoneC"     -> PgDoneC
      [] id = "DoneEmpty" -> PgDoneEmpty
      [] id = "DoneAMore" -> PgDoneAMore
      [] id = "TwoLoc"    -> PgTwoLoc
      [] id = "HeadEarly" -> PgHeadEarly
      [] id = "LocNoEnd"  -> PgLocNoEnd
      [] id = "HeadNoEnd" -> PgHeadNoEnd
      [] id = "NumNoStart" -> PgNumNoStart

\* The status codes the server answers with.
Statuses == {200, 500}

\* The term codes of main's valid_terms.
Terms == {2232, 2230, 2228}

\* Values of datetime.now(...).strftime("%Y-%m-%d %H:%M:%S").
Clock == {<<"2","0","2","3","-","0","1","-","0","9"," ","0","8",":","0","0",
            ":","0","0">>, <<"2","0","2","3","-","0","1","-","0",
                                     "9"," ","0","8",":","0","0",":","0",
                                     "1">>}

(***************************************************************************)
(* State of one call of scrape_class_data.                                 *)
(***************************************************************************)
VARIABLES
    pc,               \* where the call is: "idle" (not called), "open",
                      \* "loop", "lines", "fixup", "done", "raised"
    payload,          \* the payload dict (action, term, rec_start, rec_dur)
    f,                \* the content of the output file
    time,             \* the timestamp taken once after the header
    keep_requesting,  \* loop flag
    require_comma,    \* needed to prevent trailing commas
    res,              \* the lines of the response being iterated
    ln_idx,           \* number of lines of res already consumed
    raised,           \* the exception that ended the call, or "none"
    posts,            \* the payloads POSTed so far, in order
    served,           \* the responses received so far: status and page
    fields            \* the fields extracted and printed so far

scrapeVars == <<pc, payload, f, time, keep_requesting, require_comma, res,
                ln_idx, raised, posts, served, fields>>

(***************************************************************************)
(* State of the other programs of the repository.  Each of them runs on    *)
(* its own; while one runs the variables of the others keep their idle     *)
(* values.                                                                 *)
(***************************************************************************)
VARIABLES
    label,            \* scrape_class_data.main: args.term
    m_pc,             \* scrape_class_data.main: "start", "scraping",
                      \* "returned", or the exception it ended with
    args,             \* db_manage.main: the parsed command line
    env_file,         \* db_manage.main: what read_env() returns
    db_user,          \* db_manage.main: db_user
    db_pswd,          \* db_manage.main: db_pswd
    dm_pc,            \* db_manage.main: where the script is
    tasks,            \* db_manage.main: the load tasks started, in order
    commits,          \* db_manage.main: the tasks committed, in order
    tests,            \* UnitTestSuite: what each test of self.tests does
    stop_on_fail,     \* run_all_tests: the argument
    passed,           \* run_all_tests: passed
    failed,           \* run_all_tests: failed
    executed,         \* run_all_tests: the tests called so far, in order
    ts_pc,            \* run_all_tests: "loop", "done", "raised"
    fx_in,            \* a field text handed to the extraction
    fx_out,           \* the texts the extraction gave for it, in order
    ld_pc,            \* load_class_data: "start", "returned", or the
                      \* exception it ended with
    rows,             \* load_class_data: the rows inserted, in order
    meeting_places,   \* load_room_data: column meeting_place of the
                      \* meetings table, row by row
    rooms,            \* load_room_data: the names in table rooms before
                      \* the call
    places,           \* load_room_data: places
    rm_idx,           \* load_room_data: places handled by the loop
    prompts,          \* load_room_data: the places the user was asked
                      \* about, each with the number of rows inserted
                      \* before
    inserted,         \* load_room_data: the rows inserted, in order
    rm_pc             \* load_room_data: "select", "loop", "returned",
                      \* or the exception it ended with

mainVars   == <<label, m_pc>>
manageVars == <<args, env_file, db_user, db_pswd, dm_pc, tasks, commits>>
testVars   == <<tests, stop_on_fail, passed, failed, executed, ts_pc>>
fieldVars  == <<fx_in, fx_out>>
loadVars   == <<ld_pc, rows>>
roomVars   == <<meeting_places, rooms, places, rm_idx, prompts, inserted,
                rm_pc>>

\* Everything but the state of scrape_class_data.
others == <<mainVars, manageVars, testVars, fieldVars, loadVars, roomVars>>

vars == <<scrapeVars, others>>

\* The idle values.
NoArgs ==
    [user |-> "", pswd |-> "", file |-> "", term |-> "", env |-> FALSE,
     load_class_data |-> FALSE, load_building_data |-> FALSE,
     load_room_data |-> FALSE]

NoEnvFile == [state |-> "none", vars |-> << >>]

MainIdle ==
    /\ label = << >>
    /\ m_pc = "none"

ManageIdle ==
    /\ args = NoArgs
    /\ env_file = NoEnvFile
    /\ db_user = ""
    /\ db_pswd = ""
    /\ dm_pc = "none"
    /\ tasks = << >>
    /\ commits = << >>

TestsIdle ==
    /\ tests = << >>
    /\ stop_on_fail = FALSE
    /\ passed = 0
    /\ failed = 0
    /\ executed = << >>
    /\ ts_pc = "none"

LoadIdle ==
    /\ ld_pc = "none"
    /\ rows = << >>

RoomsIdle ==
    /\ meeting_places = << >>
    /\ rooms = {}
    /\ places = << >>
    /\ rm_idx = 0
    /\ prompts = << >>
    /\ inserted = << >>
    /\ rm_pc = "none"

FieldsIdle ==
    /\ fx_in = << >>
    /\ fx_out = << >>

\* The file holds text of an earlier run until open(file, "w") truncates it.
OldContent == <<"o","l","d">>

\* The filter fields of the payload ('binds[:reg_status]' and so on).
InitialBinds ==
    [reg_status |-> "all", subject |-> "", catalog_nbr_op |-> "=",
     catalog_nbr |-> "", title |-> "", instr_name_op |-> "=",
     instructor |-> "", ge |-> "", crse_units_op |-> "=",
     crse_units_from |-> "", crse_units_to |-> "", crse_units_exact |-> "",
     days |-> "", times |-> "", acad_career |-> "", asynch |-> "A",
     hybrid |-> "H", synch |-> "S", person |-> "P"]

\* The payload dict as it is built on entry.
InitialPayload(term) ==
    [action |-> "update_segment", term |-> term, binds |-> InitialBinds,
     rec_start |-> 0, rec_dur |-> 100]

Init ==
    /\ MainIdle /\ ManageIdle /\ TestsIdle /\ FieldsIdle
    /\ LoadIdle /\ RoomsIdle
    /\ pc = "open"
    /\ \E term \in Terms : payload = InitialPayload(term)
    /\ f = OldContent
    /\ time = << >>
    /\ keep_requesting = FALSE
    /\ require_comma = FALSE
    /\ res = << >>
    /\ ln_idx = 0
    /\ raised = "none"
    /\ posts = << >>
    /\ served = << >>
    /\ fields = << >>

\* Open that keeps the content of the file and writes after it.
Open_Append ==
    /\ pc = "open"
    /\ f' = f \o HeaderOut
    /\ \E now \in Clock : time' = now
    /\ keep_requesting' = TRUE
    /\ require_comma' = FALSE
    /\ pc' = "loop"
    /\ UNCHANGED <<payload, res, ln_idx, raised, posts, served, fields>>
    /\ UNCHANGED others

\* with open(file, "w") as f: the header, the timestamp, the two flags.
Open ==
    /\ pc = "open"
    /\ f' = HeaderOut
    /\ \E now \in Clock : time' = now
    /\ keep_requesting' = TRUE
    /\ require_comma' = FALSE
    /\ pc' = "loop"
    /\ UNCHANGED <<payload, res, ln_idx, raised, posts, served, fields>>
    /\ UNCHANGED others

\* Post that goes back to the loop test after a failed request.
Post_Retry ==
    /\ pc = "loop"
    /\ keep_requesting
    /\ Len(posts) < MaxRequests
    /\ \E status \in Statuses, page \in PageIds :
         /\ posts' = Append(posts, payload)
         /\ served' = Append(served, [status |-> status, page |-> page])
         /\ res' = PageLines(page)
         /\ ln_idx' = 0
         /\ IF RequestFailed(status)
            THEN pc' = "loop" /\ raised' = "none"
            ELSE pc' = "lines" /\ raised' = "none"
    /\ UNCHANGED <<payload, f, time, keep_requesting, require_comma,
                   fields>>
    /\ UNCHANGED others

\* while keep_requesting: res = req.post(...); a status other than 200
\* raises RuntimeError before any line is read.
Post ==
    /\ pc = "loop"
    /\ keep_requesting
    /\ Len(posts) < MaxRequests
    /\ \E status \in Statuses, page \in PageIds :
         /\ posts' = Append(posts, payload)
         /\ served' = Append(served, [status |-> status, page |-> page])
         /\ res' = PageLines(page)
         /\ ln_idx' = 0
         /\ IF RequestFailed(status)
            THEN pc' = "raised" /\ raised' = "RuntimeError"
            ELSE pc' = "lines" /\ raised' = "none"
    /\ UNCHANGED <<payload, f, time, keep_requesting, require_comma,
                   fields>>
    /\ UNCHANGED others

\* The line the for loop hands to the body next.
HasLine == pc = "lines" /\ ln_idx < Len(res)
ln == res[ln_idx + 1]

\* An exception inside the with block: the file is closed as it is.
Raise(exc) ==
    /\ pc' = "raised"
    /\ raised' = exc

Consume ==
    /\ pc' = "lines"
    /\ ln_idx' = ln_idx + 1
    /\ raised' = "none"

\* LineProgress taking the decision anew at every progress line.
LineProgress_Resume ==
    /\ HasLine
    /\ Classify(ln) = "Progress"
    /\ IF IsInt(TotalText(ln)) /\ IsInt(CurrentText(ln))
       THEN /\ keep_requesting' =
                 ~FinalPage(IntOf(CurrentText(ln)), IntOf(TotalText(ln)))
            /\ Consume
       ELSE /\ Raise("ValueError")
            /\ UNCHANGED <<keep_requesting, ln_idx>>
    /\ UNCHANGED <<payload, f, time, require_comma, res, posts, served,
                   fields>>
    /\ UNCHANGED others

\* if "</b> - <b>" in ln: both counters go through int(); on the final
\* page keep_requesting becomes False.  Nothing is printed.
LineProgress ==
    /\ HasLine
    /\ Classify(ln) = "Progress"
    /\ IF IsInt(TotalText(ln)) /\ IsInt(CurrentText(ln))
       THEN /\ keep_requesting' =
                 IF FinalPage(IntOf(CurrentText(ln)), IntOf(TotalText(ln)))
                 THEN FALSE
                 ELSE keep_requesting
            /\ Consume
       ELSE /\ Raise("ValueError")
            /\ UNCHANGED <<keep_requesting, ln_idx>>
    /\ UNCHANGED <<payload, f, time, require_comma, res, posts, served,
                   fields>>
    /\ UNCHANGED others

\* LineHeading writing the opening of the record at the start of the file.
LineHeading_Prepend ==
    /\ HasLine
    /\ Classify(ln) = "Heading"
    /\ IF Len(HeadingParts(ln)) = 2
       THEN /\ f' = HeadingOut(HeadingCode(ln), HeadingName(ln)) \o f
            /\ fields' = Append(fields,
                   [kind |-> "Heading",
                    vals |-> <<HeadingCode(ln), HeadingName(ln)>>])
            /\ Consume
       ELSE /\ Raise("ValueError")
            /\ UNCHANGED <<f, fields, ln_idx>>
    /\ UNCHANGED <<payload, time, keep_requesting, require_comma, res,
                   posts, served>>
    /\ UNCHANGED others

\* Class code and name.  "code, name = ...split(...)" raises ValueError
\* unless the split gives exactly two parts.
LineHeading ==
    /\ HasLine
    /\ Classify(ln) = "Heading"
    /\ IF Len(HeadingParts(ln)) = 2
       THEN /\ f' = f \o HeadingOut(HeadingCode(ln), HeadingName(ln))
            /\ fields' = Append(fields,
                   [kind |-> "Heading",
                    vals |-> <<HeadingCode(ln), HeadingName(ln)>>])
            /\ Consume
       ELSE /\ Raise("ValueError")
            /\ UNCHANGED <<f, fields, ln_idx>>
    /\ UNCHANGED <<payload, time, keep_requesting, require_comma, res,
                   posts, served>>
    /\ UNCHANGED others

\* Class number.
LineNumber ==
    /\ HasLine
    /\ Classify(ln) = "Number"
    /\ f' = f \o NumberOut(NumberText(ln))
    /\ fields' = Append(fields,
           [kind |-> "Number", vals |-> <<NumberText(ln)>>])
    /\ Consume
    /\ UNCHANGED <<payload, time, keep_requesting, require_comma, res,
                   posts, served>>
    /\ UNCHANGED others

\* Instructor.
LineInstructors ==
    /\ HasLine
    /\ Classify(ln) = "Instructors"
    /\ f' = f \o InstructorsOut(InstructorList(ln))
    /\ fields' = Append(fields,
           [kind |-> "Instructors", vals |-> InstructorList(ln)])
    /\ Consume
    /\ UNCHANGED <<payload, time, keep_requesting, require_comma, res,
                   posts, served>>
    /\ UNCHANGED others

\* Location.
LineLocation ==
    /\ HasLine
    /\ Classify(ln) = "Location"
    /\ f' = f \o LocationOut(require_comma, LocationName(LocationText(ln)))
    /\ fields' = Append(fields,
           [kind |-> "Location",
            vals |-> <<LocationName(LocationText(ln))>>])
    /\ Consume
    /\ UNCHANGED <<payload, time, keep_requesting, require_comma, res,
                   posts, served>>
    /\ UNCHANGED others

\* Day and time; require_comma becomes True.
LineDayTime ==
    /\ HasLine
    /\ Classify(ln) = "DayTime"
    /\ f' = f \o DayTimeOut(DayTimeList(ln))
    /\ fields' = Append(fields,
           [kind |-> "DayTime", vals |-> DayTimeList(ln)])
    /\ require_comma' = TRUE
    /\ Consume
    /\ UNCHANGED <<payload, time, keep_requesting, res, posts, served>>
    /\ UNCHANGED others

\* LineMode taking the time anew for every record.
LineMode_FreshClock ==
    /\ HasLine
    /\ Classify(ln) = "Mode"
    /\ \E now \in Clock :
         f' = f \o ModeOut(require_comma, ModeText(ln), now)
    /\ fields' = Append(fields,
           [kind |-> "Mode", vals |-> <<ModeText(ln)>>])
    /\ require_comma' = FALSE
    /\ Consume
    /\ UNCHANGED <<payload, time, keep_requesting, res, posts, served>>
    /\ UNCHANGED others

\* Mode, and with it the last_updated key and the end of the record.
LineMode ==
    /\ HasLine
    /\ Classify(ln) = "Mode"
    /\ f' = f \o ModeOut(require_comma, ModeText(ln), time)
    /\ fields' = Append(fields,
           [kind |-> "Mode", vals |-> <<ModeText(ln)>>])
    /\ require_comma' = FALSE
    /\ Consume
    /\ UNCHANGED <<payload, time, keep_requesting, res, posts, served>>
    /\ UNCHANGED others

\* A line without any marker is skipped.
LineOther ==
    /\ HasLine
    /\ Classify(ln) = "None"
    /\ Consume
    /\ UNCHANGED <<payload, f, time, keep_requesting, require_comma, res,
                   posts, served, fields>>
    /\ UNCHANGED others

\* After the last line of a response the payload is altered for the next
\* request and the while condition is tested again.
EndOfPage ==
    /\ pc = "lines"
    /\ ln_idx = Len(res)
    /\ payload' = NextPayload(payload)
    /\ pc' = "loop"
    /\ UNCHANGED <<f, time, keep_requesting, require_comma, res, ln_idx,
                   raised, posts, served, fields>>
    /\ UNCHANGED others

\* The loop has ended: the footer is printed and the file is closed.
Close ==
    /\ pc = "loop"
    /\ ~keep_requesting
    /\ f' = f \o FooterOut
    /\ pc' = "fixup"
    /\ UNCHANGED <<payload, time, keep_requesting, require_comma, res,
                   ln_idx, raised, posts, served, fields>>
    /\ UNCHANGED others

\* The file is reopened in binary mode and one byte is overwritten by a
\* space.  seek() to a negative position raises OSError.
Fixup ==
    /\ pc = "fixup"
    /\ IF FixupPos(Len(f)) >= 0
       THEN /\ f' = [f EXCEPT ![FixupPos(Len(f)) + 1] = " "]
            /\ pc' = "done"
            /\ raised' = "none"
       ELSE /\ Raise("OSError")
            /\ f' = f
    /\ UNCHANGED <<payload, time, keep_requesting, require_comma, res,
                   ln_idx, posts, served, fields>>
    /\ UNCHANGED others

Next ==
    \/ Open
    \/ Post
    \/ LineProgress
    \/ LineHeading
    \/ LineNumber
    \/ LineInstructors
    \/ LineLocation
    \/ LineDayTime
    \/ LineMode
    \/ LineOther
    \/ EndOfPage
    \/ Close
    \/ Fixup

Spec == Init /\ [][Next]_vars

(***************************************************************************)
(* Reading the document back, as load_class_data does with json.load and   *)
(* class_data['classes'].  A JSON value is a record [t, v]: a string holds *)
(* its characters, a number its value, a list its elements, an object the  *)
(* list of its <<key, value>> pairs in document order.  The grammar is     *)
(* JSON's for these four shapes: whitespace between tokens, a comma        *)
(* between (never after) the members of a list or an object, no raw line   *)
(* break inside a string, nothing but whitespace after the value.          *)
(***************************************************************************)
JStr(s) == [t |-> "str", v |-> s]
JNum(n) == [t |-> "num", v |-> n]
JArr(a) == [t |-> "arr", v |-> a]
JObj(o) == [t |-> "obj", v |-> o]

\* A parse step gives the value and the position after it, or fails.
JFail == [ok |-> FALSE, val |-> JNum(0), pos |-> 0]
JOk(val, pos) == [ok |-> TRUE, val |-> val, pos |-> pos]

IsWs(c) ==
    c \in {" ", "\n", "\t", "\r"}

RECURSIVE SkipWs(_, _)
SkipWs(d, i) ==
    IF i <= Len(d) /\ IsWs(d[i]) THEN SkipWs(d, i + 1) ELSE i

\* The characters of a string whose opening quote is before position i.
RECURSIVE JStringBody(_, _, _)
JStringBody(d, i, acc) ==
    IF i > Len(d) THEN JFail
    ELSE IF d[i] = "\"" THEN JOk(JStr(acc), i + 1)
    ELSE IF d[i] \in {"\n", "\r", "\t"} THEN JFail
    ELSE IF d[i] = "\\"
         THEN IF i + 1 <= Len(d) /\ d[i + 1] \in {"\"", "\\", "/"}
              THEN JStringBody(d, i + 2, Append(acc, d[i + 1]))
              ELSE JFail
    ELSE JStringBody(d, i + 1, Append(acc, d[i]))

\* The end of a run of digits that starts at position i.
RECURSIVE DigitsEnd(_, _)
DigitsEnd(d, i) ==
    IF i <= Len(d) /\ IsDigit(d[i]) THEN DigitsEnd(d, i + 1) ELSE i

\* An integer without sign, fraction or exponent; no leading zero.
JNumber(d, i) ==
    LET e == DigitsEnd(d, i)
    IN  IF e = i \/ (e > i + 1 /\ d[i] = "0") THEN JFail
        ELSE JOk(JNum(IntOf(SubSeq(d, i, e - 1))), e)

RECURSIVE JValue(_, _)
RECURSIVE JElements(_, _, _)
RECURSIVE JMembers(_, _, _)

\* The elements of a list, from the position of the next element.
JElements(d, i, acc) ==
    LET r == JValue(d, SkipWs(d, i))
        j == SkipWs(d, r.pos)
    IN  IF ~r.ok \/ j > Len(d) THEN JFail
        ELSE IF d[j] = "," THEN JElements(d, j + 1, Append(acc, r.val))
        ELSE IF d[j] = "]" THEN JOk(JArr(Append(acc, r.val)), j + 1)
        ELSE JFail

\* The members of an object, from the position of the next key.
JMembers(d, i, acc) ==
    LET k == SkipWs(d, i)
        key == IF k <= Len(d) /\ d[k] = "\""
               THEN JStringBody(d, k + 1, << >>)
               ELSE JFail
        c == SkipWs(d, key.pos)
        r == IF key.ok /\ c <= Len(d) /\ d[c] = ":"
             THEN JValue(d, SkipWs(d, c + 1))
             ELSE JFail
        j == SkipWs(d, r.pos)
        member == <<key.val.v, r.val>>
    IN  IF ~r.ok \/ j > Len(d) THEN JFail
        ELSE IF d[j] = "," THEN JMembers(d, j + 1, Append(acc, member))
        ELSE IF d[j] = "}" THEN JOk(JObj(Append(acc, member)), j + 1)
        ELSE JFail

JValue(d, i) ==
    IF i > Len(d) THEN JFail
    ELSE IF d[i] = "\"" THEN JStringBody(d, i + 1, << >>)
    ELSE IF IsDigit(d[i]) THEN JNumber(d, i)
    ELSE IF d[i] = "["
         THEN LET j == SkipWs(d, i + 1)
              IN  IF j <= Len(d) /\ d[j] = "]" THEN JOk(JArr(<< >>), j + 1)
                  ELSE JElements(d, j, << >>)
    ELSE IF d[i] = "{"
         THEN LET j == SkipWs(d, i + 1)
              IN  IF j <= Len(d) /\ d[j] = "}" THEN JOk(JObj(<< >>), j + 1)
                  ELSE JMembers(d, j, << >>)
    ELSE JFail

\* json.load: one value, then only whitespace up to the end of the file.
JsonLoad(d) ==
    LET r == JValue(d, SkipWs(d, 1))
    IN  IF r.ok /\ SkipWs(d, r.pos) = Len(d) + 1 THEN r ELSE JFail

(***************************************************************************)
(* The records the feed pages stand for, written out by hand as the        *)
(* values the emitted document is to hold (section 6 of the               *)
(* specification: code, name, number, instructors, meetings, mode,         *)
(* last_updated).                                                          *)
(***************************************************************************)
ClassRecord(code, name, number, instructors, meetings, mode, stamp) ==
    JObj(<< <<<<"c","o","d","e">>, JStr(code)>>,
            <<<<"n","a","m","e">>, JStr(name)>>,
            <<<<"n","u","m","b","e","r">>, JNum(number)>>,
            <<<<"i","n","s","t","r","u","c","t","o","r","s">>,
              JArr([i \in 1..Len(instructors) |-> JStr(instructors[i])])>>,
            <<<<"m","e","e","t","i","n","g","s">>,
              JArr([i \in 1..Len(meetings) |->
                      JArr([j \in 1..Len(meetings[i]) |->
                              JStr(meetings[i][j])])])>>,
            <<<<"m","o","d","e">>, JStr(mode)>>,
            <<<<"l","a","s","t","_","u","p","d","a","t","e","d">>, JStr(stamp)>> >>)

GoldA(stamp) ==
    ClassRecord(<<"C","S","E","1","2">>, <<"S","y","s">>, 101, <<<<"S","t","a","f","f">>>>,
                << <<<<"S","o","c"," ","2">>, <<"M","W","F"," ","9","A","M">>>> >>, <<"I","n"," ","P","e","r",
                                                    "s","o","n">>, stamp)

GoldB(stamp) ==
    ClassRecord(<<"A","M","3">>, <<"A","&","B">>, 202, <<<<"L","e","e",",","J",".">>, <<"S","t","a","f","f">>>>,
                << << << >>, <<"T","u"," ","1","P","M">>, <<"T","h"," ","2","P","M">>>> >>, <<"H","y","b","r",
                                                            "i","d">>, stamp)

GoldC(stamp) ==
    ClassRecord(<<"H","I","S","5">>, <<"A","r","t">>, 303, <<<<"K","i","m",",","P",".">>>>,
                << <<<<"A","u","d"," ","1">>, <<"M"," ","3","P","M">>>>, <<<<"O","n","l","i","n","e">>, <<"C","a","n",
                                                             "c","e","l",
                                                             "l","e","d">>>> >>,
                <<"O","n","l","i","n","e">>, stamp)

\* The pages whose lines follow the feed's field order, with their records.
OrderedPageIds ==
    {"MoreA", "SilentB", "DoneC", "DoneEmpty", "DoneAMore"}

PageRecords(id, stamp) ==
    CASE id = "MoreA"     -> <<GoldA(stamp)>>
      [] id = "SilentB"   -> <<GoldB(stamp)>>
      [] id = "DoneC"     -> <<GoldC(stamp)>>
      [] id = "DoneEmpty" -> << >>
      [] id = "DoneAMore" -> <<GoldA(stamp)>>

\* The pages that hold a progress line with current >= total.
FinalPageIds ==
    PageIds \ {"MoreA", "SilentB"}

\* Every response so far was one of the ordered pages.
OrderedFeed ==
    \A i \in 1..Len(served) : served[i].page \in OrderedPageIds

\* The records of the pages received with status 200, in feed order.
RECURSIVE RecordsOf(_, _)
RecordsOf(pages, stamp) ==
    IF pages = << >> THEN << >>
    ELSE (IF Head(pages).status = 200
          THEN PageRecords(Head(pages).page, stamp)
          ELSE << >>)
         \o RecordsOf(Tail(pages), stamp)

Expected == RecordsOf(served, time)

\* obj[key] for a parsed object: the value of the last member named key.
JGet(obj, key) ==
    LET hits == {i \in 1..Len(obj.v) : obj.v[i][1] = key}
    IN  obj.v[CHOOSE i \in hits : \A j \in hits : i >= j][2]

IsPrefix(s, t) ==
    /\ Len(s) <= Len(t)
    /\ s = SubSeq(t, 1, Len(s))

Last(s) == s[Len(s)]

(***************************************************************************)
(* Properties.                                                             *)
(***************************************************************************)

\* C1: the k-th POST of a run carries action 'update_segment' and
\* rec_start 0 for k = 1, action 'next' and rec_start 0 for k = 2, and
\* action 'next' and rec_start 100*(k-2) for every k >= 3.
C1_PayloadSequence ==
    \A k \in 1..Len(posts) :
        /\ posts[k].action = (IF k = 1 THEN "update_segment" ELSE "next")
        /\ posts[k].rec_start = (IF k <= 2 THEN 0 ELSE 100 * (k - 2))

\* Four requests have been sent, the fourth one for offset 200.
C1_Witness ==
    /\ Len(posts) >= 4
    /\ posts[4].rec_start = 200
    /\ posts[2].rec_start = 0

\* The responses so far all had status 200.
AllOk ==
    \A i \in 1..Len(served) : served[i].status = 200

\* Some response so far held a progress line with current >= total.
SomeFinal ==
    \E i \in 1..Len(served) : served[i].page \in FinalPageIds

\* C2: with every response of status 200, the run stops requesting after
\* the first page that holds a progress line with current >= total, having
\* issued exactly as many requests as pages up to that one, and goes on to
\* finalize; as long as no such page has come, the loop asks for one more.
C2_StopsAtFirstFinalPage ==
    AllOk =>
        /\ (pc \in {"fixup", "done"}) =>
               /\ Len(posts) = Len(served)
               /\ Last(served).page \in FinalPageIds
               /\ \A i \in 1..(Len(served) - 1) :
                      served[i].page \notin FinalPageIds
        /\ (pc = "loop" /\ ~SomeFinal) =>
               /\ keep_requesting
               /\ (Len(posts) < MaxRequests) => ENABLED Post
        /\ (pc = "loop" /\ SomeFinal) => (~keep_requesting /\ ENABLED Close)

\* A run that ended after exactly three requests, the third page being the
\* first final one.
C2_Witness ==
    /\ pc = "done"
    /\ Len(posts) = 3
    /\ served[1].page = "SilentB"
    /\ served[2].page = "MoreA"
    /\ served[3].page \in FinalPageIds

\* The last response received had a status other than 200.
LastFailed ==
    served # << >> /\ Last(served).status # 200

C3_State ==
    LastFailed =>
        /\ pc = "raised"
        /\ raised = "RuntimeError"
        /\ ln_idx = 0
        /\ ~JsonLoad(f).ok
        /\ Slice(f, Len(f) - Len(FooterOut), Len(f)) # FooterOut

C3_Step ==
    (served' # served /\ Last(served').status # 200) =>
        /\ f' = f
        /\ fields' = fields
        /\ pc' = "raised"

\* C3: a response whose status is not 200 makes the call raise
\* RuntimeError at once; no line of it is processed, nothing is written
\* for it, neither the footer nor the fix-up, and the file stays as it
\* was, not finalized.
C3_FailureAborts ==
    []C3_State /\ [][C3_Step]_vars

\* The second request failed after a first page had been written.
C3_Witness ==
    /\ Len(served) = 2
    /\ served[1].status = 200
    /\ served[2].status = 500
    /\ raised = "RuntimeError"
    /\ fields # << >>

C5_FixupHitsSeparator ==
    OrderedFeed =>
        /\ (pc = "fixup") => f[FixupPos(Len(f)) + 1] = ","
        /\ (pc = "done") => JsonLoad(f).ok

\* The "code" values found in the text of the file, in file order.
RECURSIVE CodesIn(_, _)
CodesIn(d, from) ==
    LET key == <<" "," "," "," "," "," "," "," "," "," "," "," ","\"","c",
                 "o","d","e","\"",":"," ","\"">>
        i == FindFrom(d, key, from)
        body == JStringBody(d, i + Len(key) + 1, << >>)
    IN  IF i = -1 \/ ~body.ok THEN << >>
        ELSE <<body.val.v>> \o CodesIn(d, body.pos - 1)

ExpectedCodes ==
    [i \in 1..Len(Expected) |-> JGet(Expected[i], <<"c","o","d","e">>).v]

EntryOpen ==
    <<"\n"," "," "," "," "," "," "," "," "," "," "," "," "," "," "," "," ",
      "[","\n">>

\* The JSON values that stand, separated by commas, from position i up to
\* the end of the text; << >> when the text does not read that way.
RECURSIVE EntriesFrom(_, _, _)
EntriesFrom(d, i, acc) ==
    LET r == JValue(d, SkipWs(d, i))
        j == SkipWs(d, r.pos)
    IN  IF ~r.ok THEN << >>
        ELSE IF j > Len(d) THEN Append(acc, r.val)
        ELSE IF d[j] = "," THEN EntriesFrom(d, j + 1, Append(acc, r.val))
        ELSE << >>

\* The meeting entries written by the last Location line and what follows.
LastEntries ==
    EntriesFrom(f, RFind(f, EntryOpen) + 1, << >>)

\* A DayTime block of two time strings has just been printed after the
\* Location that opened its entry.
TwoTimeBlockPrinted ==
    /\ Len(fields) >= 2
    /\ Last(fields).kind = "DayTime"
    /\ Len(Last(fields).vals) = 2
    /\ fields[Len(fields) - 1].kind = "Location"

LastKind ==
    IF fields = << >> THEN "none" ELSE Last(fields).kind

\* The field order of the feed: heading, number, instructors, pairs of
\* location and day-time, mode.
InOrder(prev, kind) ==
    CASE prev \in {"none", "Mode"} -> kind = "Heading"
      [] prev = "Heading"          -> kind = "Number"
      [] prev = "Number"           -> kind = "Instructors"
      [] prev = "Instructors"      -> kind \in {"Location", "Mode"}
      [] prev = "Location"         -> kind = "DayTime"
      [] prev = "DayTime"          -> kind \in {"Location", "Mode"}

RecordKinds ==
    {"Heading", "Number", "Instructors", "Location", "DayTime", "Mode"}

\* The line about to be handled carries a record field out of order.
OutOfOrderLine ==
    /\ HasLine
    /\ Classify(ln) \in RecordKinds
    /\ ~InOrder(LastKind, Classify(ln))

\* C8: a record field that arrives out of order aborts the run; it is not
\* written to the file.
C8_OutOfOrderAborts ==
    [][OutOfOrderLine => (pc' = "raised" /\ f' = f)]_vars

RECURSIVE Count(_, _, _)
Count(d, p, from) ==
    LET i == FindFrom(d, p, from)
    IN  IF i = -1 THEN 0 ELSE 1 + Count(d, p, i + 1)

\* Records opened in the file and not closed yet.
OpenRecords ==
    Count(f, <<" "," "," "," "," "," "," "," ","{","\n">>, 0) - Count(f, <<" "," "," "," "," "," "," ",
                                              " ","}">>, 0)

\* C9: at every point of a run at most one record is open in the file.
C9_AtMostOneOpen ==
    pc # "open" => OpenRecords \in {0, 1}

\* The end marker and the stop character of the scan for each kind.
EndMarker(kind) ==
    CASE kind \in {"Progress", "Mode"}   -> EndB
      [] kind \in {"Heading", "Number"}  -> EndA
      [] OTHER                           -> EndDiv

StopChar(kind) ==
    IF kind \in {"Instructors", "DayTime"} THEN "/" ELSE ">"

\* The line carries a label, but the end marker is absent or no start
\* marker stands before it.
Malformed(line) ==
    LET kind == Classify(line)
        e == RFind(line, EndMarker(kind))
    IN  /\ kind # "None"
        /\ \/ e = -1
           \/ \A i \in 1..(e - 1) : line[i + 1] # StopChar(kind)

\* C10: a malformed line is taken as carrying no field: the run goes on,
\* nothing is written for the line, the session state stays as it is.
C10_MalformedIgnored ==
    [][(HasLine /\ Malformed(ln)) =>
          /\ pc' = "lines"
          /\ f' = f
          /\ require_comma' = require_comma
          /\ keep_requesting' = keep_requesting
          /\ payload' = payload]_vars

\* C11: a feed that never reports current >= total (all responses 200)
\* does not keep the run going without end: once the budget of requests
\* (here MaxRequests) is used up the run ends with a 'stalled' error of
\* its own, which is not the error of a failed request.
C11_StallReported ==
    (AllOk /\ ~SomeFinal /\ Len(served) = MaxRequests /\ pc = "loop") =>
        /\ raised = "StalledError"
        /\ ~keep_requesting

\* C12: no request follows a response whose status is not 200: a failed
\* response is the last response of its run and its request the last
\* request, whichever page it was.
C12_NoRequestAfterFailure ==
    \A i \in 1..Len(served) :
        served[i].status # 200 =>
            /\ i = Len(served)
            /\ Len(posts) = i
            /\ ~ENABLED Post

\* The third request failed and the run is over.
C12_Witness ==
    /\ Len(served) = 3
    /\ served[3].status = 500
    /\ Len(posts) = 3
    /\ pc = "raised"

\* The "last_updated" values found in the text of the file, in file order.
RECURSIVE StampsIn(_, _)
StampsIn(d, from) ==
    LET key == <<"\"","l","a","s","t","_","u","p","d","a","t","e","d","\"",
                 ":"," ","\"">>
        i == FindFrom(d, key, from)
        body == JStringBody(d, i + Len(key) + 1, << >>)
    IN  IF i = -1 \/ ~body.ok THEN << >>
        ELSE <<body.val.v>> \o StampsIn(d, body.pos - 1)

\* C15: every record of a run carries the same last_updated value, the
\* time taken once before the first request; the value stays the same
\* from record to record and from page to page.
C15_OneTimestamp ==
    /\ pc \notin {"idle", "open"} =>
           LET stamps == StampsIn(f, 0)
           IN  \A i \in 1..Len(stamps) : stamps[i] = time
    /\ posts # << >> => time \in Clock

\* Two pages have been read and both records written carry the time.
C15_Witness ==
    /\ pc = "done"
    /\ Len(served) = 2
    /\ StampsIn(f, 0) = <<time, time>>
    /\ time \in Clock

\* C16: in every request rec_dur is 100, rec_start is a non-negative
\* multiple of 100, the term code and the filter fields are those of the
\* first payload, the action is 'update_segment' or 'next', and no
\* 'update_segment' follows a 'next'.
C16_PayloadShape ==
    \A k \in 1..Len(posts) :
        /\ posts[k].rec_dur = 100
        /\ posts[k].rec_start >= 0
        /\ posts[k].rec_start % 100 = 0
        /\ posts[k].term = posts[1].term
        /\ posts[k].term \in Terms
        /\ posts[k].binds = InitialBinds
        /\ posts[k].action \in {"update_segment", "next"}
        /\ \A j \in 1..k : posts[j].action = "next" =>
                              posts[k].action = "next"

\* Three requests: the action went from 'update_segment' to 'next' and
\* stayed there.
C16_Witness ==
    /\ Len(posts) >= 3
    /\ posts[1].action = "update_segment"
    /\ posts[2].action = "next"
    /\ posts[3].action = "next"
    /\ posts[3].rec_start = 100

(***************************************************************************)
(* main of scrape_class_data.py: the term label of the command line is     *)
(* checked against valid_terms and scrape_class_data is called.            *)
(***************************************************************************)
UpperLetters ==
    <<"A","B","C","D","E","F","G","H","I","J","K","L","M","N","O","P","Q",
      "R","S","T","U","V","W","X","Y","Z">>

LowerLetters ==
    <<"a","b","c","d","e","f","g","h","i","j","k","l","m","n","o","p","q",
      "r","s","t","u","v","w","x","y","z">>

\* s.lower()
Lower(s) ==
    [i \in 1..Len(s) |->
        IF \E k \in 1..26 : UpperLetters[k] = s[i]
        THEN LowerLetters[CHOOSE k \in 1..26 : UpperLetters[k] = s[i]]
        ELSE s[i]]

\* valid_terms, as the list of its items.
ValidTerms ==
    << <<<<"s","p","r","i","n","g","2","0","2","3">>, 2232>>,
       <<<<"w","i","n","t","e","r","2","0","2","3">>, 2230>>,
       <<<<"f","a","l","l","2","0","2","2">>, 2228>> >>

\* key in valid_terms
HasTerm(key) ==
    \E i \in 1..Len(ValidTerms) : ValidTerms[i][1] = key

\* valid_terms[key]
TermCode(key) ==
    ValidTerms[CHOOSE i \in 1..Len(ValidTerms) : ValidTerms[i][1] = key][2]

\* main's test with the check left out.
KnownTerm_NoCheck(term) ==
    TRUE

\* if args.term.lower() in valid_terms
KnownTerm(term) ==
    HasTerm(Lower(term))

\* The labels given on the command line.
Labels ==
    {<<"f","a","l","l","2","0","2","2">>, <<"F","a","l","l","2","0","2","2">>, <<"w","i","n","t","e","r","2","0","2","3">>, <<"s","p","r","i","n","g",
                                                   "2","0","2","3">>,
     <<"s","u","m","m","e","r","2","0","2","3">>, <<"S","u","m","m","e","r","2","0","2","3">>, << >>}

\* Before the call there is no payload.
NoPayload ==
    [action |-> "none", term |-> 0, binds |-> InitialBinds,
     rec_start |-> 0, rec_dur |-> 0]

\* scrape_class_data has not been called.
ScrapeIdle ==
    /\ pc = "idle"
    /\ payload = NoPayload
    /\ f = OldContent
    /\ time = << >>
    /\ keep_requesting = FALSE
    /\ require_comma = FALSE
    /\ res = << >>
    /\ ln_idx = 0
    /\ raised = "none"
    /\ posts = << >>
    /\ served = << >>
    /\ fields = << >>

InitMain ==
    /\ ManageIdle /\ TestsIdle /\ FieldsIdle
    /\ ScrapeIdle
    /\ LoadIdle /\ RoomsIdle
    /\ m_pc = "start"
    /\ label \in Labels

\* The check of the term and the call: scrape_class_data(args.file,
\* valid_terms[args.term], args.verbose).  The subscript raises KeyError
\* for a label that is no key as it stands; an unsupported term raises
\* ValueError.
MainCheck ==
    /\ m_pc = "start"
    /\ IF KnownTerm(label)
       THEN IF HasTerm(label)
            THEN /\ m_pc' = "scraping"
                 /\ pc' = "open"
                 /\ payload' = InitialPayload(TermCode(label))
            ELSE /\ m_pc' = "KeyError"
                 /\ UNCHANGED <<pc, payload>>
       ELSE /\ m_pc' = "ValueError"
            /\ UNCHANGED <<pc, payload>>
    /\ UNCHANGED <<label, f, time, keep_requesting, require_comma, res,
                   ln_idx, raised, posts, served, fields>>
    /\ UNCHANGED <<manageVars, testVars, fieldVars, loadVars, roomVars>>

\* scrape_class_data returns, or its exception goes through main.
MainReturn ==
    /\ m_pc = "scraping"
    /\ pc \in {"done", "raised"}
    /\ m_pc' = IF pc = "done" THEN "returned" ELSE raised
    /\ UNCHANGED <<label, scrapeVars, manageVars, testVars, fieldVars,
                   loadVars, roomVars>>

NextMain ==
    \/ MainCheck
    \/ MainReturn
    \/ Open
    \/ Post
    \/ LineProgress
    \/ LineHeading
    \/ LineNumber
    \/ LineInstructors
    \/ LineLocation
    \/ LineDayTime
    \/ LineMode
    \/ LineOther
    \/ EndOfPage
    \/ Close
    \/ Fixup

SpecMain == InitMain /\ [][NextMain]_vars

\* The labels above that are in the table in no letter case.
UnknownLabels ==
    {<<"s","u","m","m","e","r","2","0","2","3">>, <<"S","u","m","m","e","r","2","0","2","3">>, << >>}

\* C17: for a label whose lower-cased form is not in the table main
\* raises ValueError before scrape_class_data is called: the file is
\* neither opened nor truncated and no request is sent.
C17_UnknownTermRejected ==
    (label \in UnknownLabels /\ m_pc # "start") =>
        /\ m_pc = "ValueError"
        /\ pc = "idle"
        /\ f = OldContent
        /\ posts = << >>

\* main has raised ValueError for 'Summer2023'.
C17_Witness ==
    /\ label = <<"S","u","m","m","e","r","2","0","2","3">>
    /\ m_pc = "ValueError"
    /\ f = OldContent

(***************************************************************************)
(* The extraction of single fields, applied to texts drawn from bounded    *)
(* sets: the location of a Location line and the collapse of 'Cancelled    *)
(* Cancelled' in a time string.                                            *)
(***************************************************************************)
\* The characters location texts are made of.
LocChars == {"A", ":", " "}

\* The location texts: no blank at either end, up to MaxLocLen characters.
LocCores ==
    {s \in UNION {[1..n -> LocChars] : n \in 0..MaxLocLen} :
        s = << >> \/ (s[1] # " " /\ s[Len(s)] # " ")}

Blanks(n) == [i \in 1..n |-> " "]

\* A Location line of the feed around the text.
LocationLine(text) ==
    <<"<","b",">","L","o","c","a","t","i","o","n",":","<","/","b",">">> \o text \o EndDiv

\* The tokens time strings are made of.
TimeTokens == {<<"C","a","n","c","e","l","l","e","d">>, <<"T","B","A">>}

\* The tokens joined by single blanks.
RECURSIVE JoinTokens(_)
JoinTokens(toks) ==
    IF Len(toks) = 1 THEN toks[1]
    ELSE toks[1] \o <<" ">> \o JoinTokens(Tail(toks))

TimeTexts ==
    {JoinTokens(toks) :
        toks \in UNION {[1..n -> TimeTokens] : n \in 1..MaxTokens}}

InitFields ==
    /\ MainIdle /\ ManageIdle /\ TestsIdle
    /\ ScrapeIdle
    /\ LoadIdle /\ RoomsIdle
    /\ fx_out = << >>
    /\ \/ \E core \in LocCores, l \in 0..1, r \in 0..1 :
            fx_in = [kind |-> "Location", core |-> core,
                     text |-> Blanks(l) \o core \o Blanks(r)]
       \/ \E text \in TimeTexts :
            fx_in = [kind |-> "DayTime", core |-> text, text |-> text]

\* The location the program prints for a Location line with the text.
ExtractLocation ==
    /\ fx_in.kind = "Location"
    /\ fx_out = << >>
    /\ fx_out' = <<LocationName(LocationText(LocationLine(fx_in.text)))>>
    /\ UNCHANGED <<fx_in, scrapeVars, mainVars, manageVars, testVars,
                   loadVars, roomVars>>

\* The normalisation applied to the time string, and once more to its
\* own result.
NormalizeDayTime ==
    /\ fx_in.kind = "DayTime"
    /\ Len(fx_out) < 2
    /\ fx_out' = Append(fx_out,
                        CollapseCancelled(IF fx_out = << >>
                                          THEN fx_in.text
                                          ELSE Last(fx_out)))
    /\ UNCHANGED <<fx_in, scrapeVars, mainVars, manageVars, testVars,
                   loadVars, roomVars>>

NextFields ==
    \/ ExtractLocation
    \/ NormalizeDayTime

SpecFields == InitFields /\ [][NextFields]_vars

\* s without its first n characters.
DropFirst(s, n) ==
    [i \in 1..(IF Len(s) > n THEN Len(s) - n ELSE 0) |-> s[i + n]]

\* C13: a location text of exactly 3 characters (blanks around it
\* trimmed) is emitted as the empty string, every other text without its
\* first 5 characters, so that a text of 0, 1, 2, 4 or 5 characters is
\* emitted as the empty string too.
C13_LocationPrefix ==
    (fx_in.kind = "Location" /\ fx_out # << >>) =>
        /\ fx_out[1] = (IF Len(fx_in.core) = 3 THEN << >>
                        ELSE DropFirst(fx_in.core, 5))
        /\ Len(fx_in.core) \in {0, 1, 2, 3, 4, 5} => fx_out[1] = << >>

\* A text of 6 characters between blanks has lost its first 5, and so has
\* a bare identifier of 3 characters all of its own.
C13_Witness ==
    /\ fx_in.kind = "Location"
    /\ fx_in.text = <<" ","A",":"," ","A",":","A"," ">>
    /\ fx_out = <<<<"A">>>>

\* C14: collapsing 'Cancelled Cancelled' is idempotent: for a time string
\* of 'Cancelled' tokens and other tokens the second application gives
\* what the first one gave.
C14_CollapseIdempotent ==
    (fx_in.kind = "DayTime" /\ Len(fx_out) = 2) => fx_out[2] = fx_out[1]

(***************************************************************************)
(* db_manage.main: the command line, the .env file, the connection and     *)
(* the one task of the if/elif chain.  None and the empty string are both  *)
(* written "", as the program only tests them for truth.                   *)
(***************************************************************************)
\* The command lines.
ArgSets ==
    [user : {"", "admin"}, pswd : {"", "hunter2"},
     file : {"", "classes.json"}, term : {"", "2232"},
     env : BOOLEAN, load_class_data : BOOLEAN,
     load_building_data : BOOLEAN, load_room_data : BOOLEAN]

\* The .env files: missing, with a line that is not key=value, or holding
\* some of the two variables, each with a value or none.
EnvFiles ==
    {[state |-> "missing", vars |-> << >>],
     [state |-> "malformed", vars |-> << >>]}
    \cup {[state |-> "read", vars |-> d] :
            d \in UNION {[S -> {"", "postgres"}] :
                            S \in SUBSET {"DB_USER", "DB_PSWD"}}}

InitManage ==
    /\ MainIdle /\ TestsIdle /\ FieldsIdle
    /\ ScrapeIdle
    /\ LoadIdle /\ RoomsIdle
    /\ args \in ArgSets
    /\ env_file \in EnvFiles
    /\ db_user = ""
    /\ db_pswd = ""
    /\ dm_pc = "start"
    /\ tasks = << >>
    /\ commits = << >>

ManageRest == <<scrapeVars, mainVars, testVars, fieldVars, loadVars,
                roomVars>>

\* if args.env: read_env() and the two variables of it.
ManageReadEnv ==
    /\ dm_pc = "start"
    /\ IF ~args.env
       THEN dm_pc' = "check" /\ UNCHANGED <<db_user, db_pswd>>
       ELSE CASE env_file.state = "malformed" ->
                    dm_pc' = "ValueError" /\ UNCHANGED <<db_user, db_pswd>>
              [] env_file.state = "missing" ->
                    dm_pc' = "TypeError" /\ UNCHANGED <<db_user, db_pswd>>
              [] OTHER ->
                    IF "DB_USER" \notin DOMAIN env_file.vars
                    THEN dm_pc' = "exit_env"
                         /\ UNCHANGED <<db_user, db_pswd>>
                    ELSE IF "DB_PSWD" \notin DOMAIN env_file.vars
                    THEN /\ dm_pc' = "exit_env"
                         /\ db_user' = env_file.vars["DB_USER"]
                         /\ UNCHANGED db_pswd
                    ELSE /\ dm_pc' = "check"
                         /\ db_user' = env_file.vars["DB_USER"]
                         /\ db_pswd' = env_file.vars["DB_PSWD"]
    /\ UNCHANGED <<args, env_file, tasks, commits, ManageRest>>

\* if not db_user or not db_pswd: sys.exit(1)
ManageCheck ==
    /\ dm_pc = "check"
    /\ dm_pc' = IF db_user = "" \/ db_pswd = "" THEN "exit_nocreds"
                ELSE "connect"
    /\ UNCHANGED <<args, env_file, db_user, db_pswd, tasks, commits,
                   ManageRest>>

\* psycopg2.connect: the server accepts the account or not.
ManageConnect ==
    /\ dm_pc = "connect"
    /\ \E accepted \in BOOLEAN :
         dm_pc' = IF accepted THEN "connected" ELSE "exit_connect"
    /\ UNCHANGED <<args, env_file, db_user, db_pswd, tasks, commits,
                   ManageRest>>

\* Every task asked for is started.
ManageTask_All ==
    /\ dm_pc = "connected"
    /\ LET c == IF args.load_class_data THEN <<"load_class_data">>
                ELSE << >>
           b == IF args.load_building_data THEN <<"load_building_data">>
                ELSE << >>
           r == IF args.load_room_data THEN <<"load_room_data">>
                ELSE << >>
       IN  IF c \o b \o r = << >>
           THEN dm_pc' = "close" /\ UNCHANGED tasks
           ELSE dm_pc' = "task" /\ tasks' = tasks \o c \o b \o r
    /\ UNCHANGED <<args, env_file, db_user, db_pswd, commits, ManageRest>>

\* The if/elif chain up to the call of the task.
ManageTask ==
    /\ dm_pc = "connected"
    /\ IF args.load_class_data
       THEN IF args.file = "" \/ args.term = ""
            THEN dm_pc' = "exit_args" /\ UNCHANGED tasks
            ELSE dm_pc' = "task"
                 /\ tasks' = Append(tasks, "load_class_data")
       ELSE IF args.load_building_data
       THEN IF args.file = ""
            THEN dm_pc' = "exit_args" /\ UNCHANGED tasks
            ELSE dm_pc' = "task"
                 /\ tasks' = Append(tasks, "load_building_data")
       ELSE IF args.load_room_data
       THEN IF args.term = ""
            THEN dm_pc' = "exit_args" /\ UNCHANGED tasks
            ELSE dm_pc' = "task"
                 /\ tasks' = Append(tasks, "load_room_data")
       ELSE dm_pc' = "close" /\ UNCHANGED tasks
    /\ UNCHANGED <<args, env_file, db_user, db_pswd, commits, ManageRest>>

\* The task returns and conn.commit() follows, or the task raises.
ManageTaskEnd ==
    /\ dm_pc = "task"
    /\ \E returns \in BOOLEAN :
         IF returns
         THEN dm_pc' = "close" /\ commits' = Append(commits, Last(tasks))
         ELSE dm_pc' = "task_error" /\ UNCHANGED commits
    /\ UNCHANGED <<args, env_file, db_user, db_pswd, tasks, ManageRest>>

\* conn.close()
ManageClose ==
    /\ dm_pc = "close"
    /\ dm_pc' = "closed"
    /\ UNCHANGED <<args, env_file, db_user, db_pswd, tasks, commits,
                   ManageRest>>

NextManage ==
    \/ ManageReadEnv
    \/ ManageCheck
    \/ ManageConnect
    \/ ManageTask
    \/ ManageTaskEnd
    \/ ManageClose

SpecManage == InitManage /\ [][NextManage]_vars

\* The first task asked for, in the order class, building, room.
FirstAsked ==
    IF args.load_class_data THEN <<"load_class_data">>
    ELSE IF args.load_building_data THEN <<"load_building_data">>
    ELSE IF args.load_room_data THEN <<"load_room_data">>
    ELSE << >>

\* C18: at most one task is started and at most one committed; the task
\* started is the first one asked for in the order class, building,
\* room, the commit is of that task, and a run that closes the
\* connection has started and committed exactly that task.
C18_AtMostOneTask ==
    /\ Len(tasks) <= 1
    /\ tasks # << >> => tasks = FirstAsked
    /\ IsPrefix(commits, tasks)
    /\ dm_pc = "closed" => tasks = FirstAsked /\ commits = FirstAsked

\* All three tasks asked for, the run has closed the connection, and the
\* class data alone were loaded and committed.
C18_Witness ==
    /\ args.load_class_data /\ args.load_building_data
    /\ args.load_room_data
    /\ dm_pc = "closed"
    /\ tasks = <<"load_class_data">>
    /\ commits = <<"load_class_data">>

\* C19: with a user name and a password given by -u and -p and no -e,
\* the run does not end in the 'No username and/or password provided'
\* exit, and past the check it holds those credentials for the
\* connection.
C19_CommandLineCredentials ==
    (args.user # "" /\ args.pswd # "" /\ ~args.env) =>
        /\ dm_pc # "exit_nocreds"
        /\ dm_pc \notin {"none", "start", "check", "exit_nocreds"} =>
                db_user = args.user /\ db_pswd = args.pswd

(***************************************************************************)
(* UnitTestSuite.run_all_tests: the tests in the order of self.tests, each *)
(* returning True or False or raising.                                     *)
(***************************************************************************)
\* The test methods of the suite, as dir() lists them.
TestNames ==
    <<"test_01_check_connectivity", "test_02_query_classes",
      "test_03_query_instructors", "test_04_query_meetings",
      "test_05_query_buildings", "test_06_query_rooms",
      "test_07_query_join_buildings_rooms",
      "test_08_query_join_classes_instructors",
      "test_09_query_join_classes_meetings",
      "test_10_query_join_all_class_info",
      "test_11_query_join_meetings_rooms",
      "test_12_query_join_meetings_rooms_buildings",
      "test_13_query_join_everything">>

\* What a call of a test method does.
TestResults == {"True", "False", "raise"}

InitTests ==
    /\ MainIdle /\ ManageIdle /\ FieldsIdle
    /\ ScrapeIdle
    /\ LoadIdle /\ RoomsIdle
    /\ \E n \in 0..MaxTests : tests = SubSeq(TestNames, 1, n)
    /\ stop_on_fail \in BOOLEAN
    /\ passed = 0
    /\ failed = 0
    /\ executed = << >>
    /\ ts_pc = "loop"

TestsRest == <<scrapeVars, mainVars, manageVars, fieldVars, loadVars,
               roomVars>>

\* One round of the loop, never leaving it on a failure.
RunTest_NoBreak ==
    /\ ts_pc = "loop"
    /\ Len(executed) < Len(tests)
    /\ \E result \in TestResults :
         /\ executed' = Append(executed,
                               [test |-> tests[Len(executed) + 1],
                                result |-> result])
         /\ CASE result = "True" ->
                    /\ passed' = passed + 1
                    /\ UNCHANGED <<failed, ts_pc>>
              [] result = "False" ->
                    /\ failed' = failed + 1
                    /\ UNCHANGED <<passed, ts_pc>>
              [] OTHER ->
                    /\ ts_pc' = "raised"
                    /\ UNCHANGED <<passed, failed>>
    /\ UNCHANGED <<tests, stop_on_fail, TestsRest>>

\* One round of the loop: the next test is called and counted.
RunTest ==
    /\ ts_pc = "loop"
    /\ Len(executed) < Len(tests)
    /\ \E result \in TestResults :
         /\ executed' = Append(executed,
                               [test |-> tests[Len(executed) + 1],
                                result |-> result])
         /\ CASE result = "True" ->
                    /\ passed' = passed + 1
                    /\ UNCHANGED <<failed, ts_pc>>
              [] result = "False" ->
                    /\ failed' = failed + 1
                    /\ ts_pc' = IF stop_on_fail THEN "break" ELSE ts_pc
                    /\ UNCHANGED passed
              [] OTHER ->
                    /\ ts_pc' = "raised"
                    /\ UNCHANGED <<passed, failed>>
    /\ UNCHANGED <<tests, stop_on_fail, TestsRest>>

\* The loop is over, the results are printed and the method returns.
TestsReturn ==
    /\ \/ ts_pc = "loop" /\ Len(executed) = Len(tests)
       \/ ts_pc = "break"
    /\ ts_pc' = "done"
    /\ UNCHANGED <<tests, stop_on_fail, passed, failed, executed,
                   TestsRest>>

NextTests ==
    \/ RunTest
    \/ TestsReturn

SpecTests == InitTests /\ [][NextTests]_vars

\* The number of tests executed with the result.
RECURSIVE CountResult(_, _)
CountResult(log, result) ==
    IF log = << >> THEN 0
    ELSE (IF log[1].result = result THEN 1 ELSE 0)
         + CountResult(Tail(log), result)

LoadTerms == {<<"F","a","l","l","2","0","2","2">>, <<"w","i","n","t","e","r","2","0","2","3">>}

\* The outcome of a part of the load: the rows inserted and the exception
\* that ended it, or "none".
Loaded(r, exc) == [rows |-> r, exc |-> exc]

\* iter(v): the elements of a list, the characters of a string, the keys
\* of a dict.
Items(v) ==
    CASE v.t = "arr" -> v.v
      [] v.t = "str" -> [i \in 1..Len(v.v) |-> JStr(<<v.v[i]>>)]
      [] v.t = "obj" -> [i \in 1..Len(v.v) |-> JStr(v.v[i][1])]
      [] OTHER -> << >>

HasKey(v, key) ==
    \E i \in 1..Len(v.v) : v.v[i][1] = key

\* The exception of v[key] for a string key, or "none".
KeyExc(v, key) ==
    IF v.t # "obj" THEN "TypeError"
    ELSE IF ~HasKey(v, key) THEN "KeyError"
    ELSE "none"

Row(table, term, vals) ==
    [table |-> table \o Lower(term), vals |-> vals]

\* The rows of a meeting entry, a 3-element entry giving one row.
MeetingRows_OneRow(number, meeting, term) ==
    IF meeting.t = "num" THEN Loaded(<< >>, "TypeError")
    ELSE IF meeting.t = "obj" THEN Loaded(<< >>, "KeyError")
    ELSE LET m == Items(meeting)
         IN  IF Len(m) < 2 THEN Loaded(<< >>, "IndexError")
             ELSE Loaded(<<Row(<<"m","e","e","t","i","n","g","s","_">>, term,
                               <<number, m[1], m[2]>>)>>, "none")

\* if len(meeting) == 3: two INSERTs with meeting[0]; else one INSERT of
\* meeting[0] and meeting[1].
MeetingRows(number, meeting, term) ==
    IF meeting.t = "num" THEN Loaded(<< >>, "TypeError")
    ELSE IF meeting.t = "obj" THEN Loaded(<< >>, "KeyError")
    ELSE LET m == Items(meeting)
         IN  IF Len(m) = 3
             THEN Loaded(<<Row(<<"m","e","e","t","i","n","g","s","_">>, term, <<number, m[1], m[2]>>),
                           Row(<<"m","e","e","t","i","n","g","s","_">>, term, <<number, m[1], m[3]>>)>>,
                         "none")
             ELSE IF Len(m) < 2 THEN Loaded(<< >>, "IndexError")
             ELSE Loaded(<<Row(<<"m","e","e","t","i","n","g","s","_">>, term,
                               <<number, m[1], m[2]>>)>>, "none")

\* for meeting in class_info['meetings'], from the i-th entry on.
RECURSIVE LoadMeetings(_, _, _, _, _)
LoadMeetings(number, ms, i, term, acc) ==
    IF i > Len(ms) THEN Loaded(acc, "none")
    ELSE LET r == MeetingRows(number, ms[i], term)
         IN  IF r.exc # "none" THEN Loaded(acc \o r.rows, r.exc)
             ELSE LoadMeetings(number, ms, i + 1, term, acc \o r.rows)

ClassKeys ==
    <<<<"n","u","m","b","e","r">>, <<"c","o","d","e">>, <<"n","a","m","e">>, <<"m","o","d","e">>, <<"l","a","s","t","_","u",
                                                  "p","d","a","t","e","d">>>>

\* One round of "for class_info in class_data['classes']".
LoadClass(ci, term) ==
    IF \E i \in 1..Len(ClassKeys) : KeyExc(ci, ClassKeys[i]) # "none"
    THEN Loaded(<< >>, KeyExc(ci, ClassKeys[
             CHOOSE i \in 1..Len(ClassKeys) :
                 /\ KeyExc(ci, ClassKeys[i]) # "none"
                 /\ \A j \in 1..(i - 1) : KeyExc(ci, ClassKeys[j]) = "none"]))
    ELSE
    LET number == JGet(ci, <<"n","u","m","b","e","r">>)
        class == <<Row(<<"c","l","a","s","s","e","s","_">>, term,
                       <<number, JGet(ci, <<"c","o","d","e">>), JGet(ci, <<"n","a","m",
                                                                "e">>),
                         JGet(ci, <<"m","o","d","e">>), JGet(ci, <<"l","a","s","t","_",
                                                        "u","p","d","a","t",
                                                        "e","d">>)>>)>>
    IN  IF ~HasKey(ci, <<"i","n","s","t","r","u","c","t","o","r","s">>) THEN Loaded(class, "KeyError")
        ELSE IF JGet(ci, <<"i","n","s","t","r","u","c","t","o","r","s">>).t = "num"
        THEN Loaded(class, "TypeError")
        ELSE
        LET ins == Items(JGet(ci, <<"i","n","s","t","r","u","c","t","o","r",
                                    "s">>))
            withIns == class \o [i \in 1..Len(ins) |->
                           Row(<<"i","n","s","t","r","u","c","t","o","r",
                                 "s","_">>, term, <<number, ins[i]>>)]
        IN  IF ~HasKey(ci, <<"m","e","e","t","i","n","g","s">>) THEN Loaded(withIns, "KeyError")
            ELSE IF JGet(ci, <<"m","e","e","t","i","n","g","s">>).t = "num"
            THEN Loaded(withIns, "TypeError")
            ELSE LoadMeetings(number, Items(JGet(ci, <<"m","e","e","t","i",
                                                       "n","g","s">>)), 1,
                              term, withIns)

\* The loop over the classes, from the i-th class on.
RECURSIVE LoadClasses(_, _, _, _)
LoadClasses(cs, i, term, acc) ==
    IF i > Len(cs) THEN Loaded(acc, "none")
    ELSE LET r == LoadClass(cs[i], term)
         IN  IF r.exc # "none" THEN Loaded(acc \o r.rows, r.exc)
             ELSE LoadClasses(cs, i + 1, term, acc \o r.rows)

\* The body of load_class_data after json.load gave class_data.
LoadDocument(class_data, term) ==
    IF KeyExc(class_data, <<"c","l","a","s","s","e","s">>) # "none"
    THEN Loaded(<< >>, KeyExc(class_data, <<"c","l","a","s","s","e","s">>))
    ELSE IF JGet(class_data, <<"c","l","a","s","s","e","s">>).t = "num"
    THEN Loaded(<< >>, "TypeError")
    ELSE LoadClasses(Items(JGet(class_data, <<"c","l","a","s","s","e","s">>)), 1, term, << >>)

InitLoad ==
    /\ MainIdle /\ ManageIdle /\ TestsIdle /\ FieldsIdle
    /\ RoomsIdle
    /\ ld_pc = "start"
    /\ rows = << >>
    /\ pc = "open"
    /\ \E term \in Terms : payload = InitialPayload(term)
    /\ f = OldContent
    /\ time = << >>
    /\ keep_requesting = FALSE
    /\ require_comma = FALSE
    /\ res = << >>
    /\ ln_idx = 0
    /\ raised = "none"
    /\ posts = << >>
    /\ served = << >>
    /\ fields = << >>

\* load_class_data(cur, file, term) on the file of the ended scraper run.
LoadClassData ==
    /\ pc \in {"done", "raised"}
    /\ ld_pc = "start"
    /\ \E term \in LoadTerms :
         LET class_data == JsonLoad(f)
             r == LoadDocument(class_data.val, term)
         IN  IF ~class_data.ok
             THEN ld_pc' = "JSONDecodeError" /\ rows' = << >>
             ELSE /\ rows' = r.rows
                  /\ ld_pc' = IF r.exc = "none" THEN "returned" ELSE r.exc
    /\ UNCHANGED <<scrapeVars, mainVars, manageVars, testVars, fieldVars,
                   roomVars>>

NextLoad ==
    \/ Next
    \/ LoadClassData

SpecLoad == InitLoad /\ [][NextLoad]_vars

(***************************************************************************)
(* db_manage.load_room_data: the SELECT of the meeting places, then for    *)
(* each place the lookup in rooms, the questions to the user and the       *)
(* INSERT.  The rows are taken in the order of the table; the lookup sees  *)
(* the rows inserted earlier through the same cursor.                      *)
(***************************************************************************)
\* The meeting places of the table.
PlaceNames ==
    {<< >>, <<"O","n","l","i","n","e">>, <<"T","B","D"," ","I","n"," ","P","e","r","s","o",
                          "n">>, <<"R","e","m","o","t","e"," ",
                                             "I","n","s","t","r","u","c",
                                             "t","i","o","n">>,
     <<"S","o","c"," ","S","c","i"," ","1"," ","4","1","4">>, <<"J"," ","B","a","s","k"," ","A","u","d"," ","1",
                          "0","1">>}

\* The names table rooms may hold before the call.
RoomNames == {<<"S","o","c"," ","S","c","i"," ","1"," ","4","1","4">>, <<"O","n","l","i","n","e">>}

\* What the user types at the four questions; the later ones are not
\* asked after a blank building number or a floor that is no number.
Answers ==
    {[building_num |-> << >>, room_num |-> << >>, floor |-> << >>,
      capacity |-> << >>],
     [building_num |-> <<"2","3">>, room_num |-> <<"1","0","1">>, floor |-> <<"1">>,
      capacity |-> <<"2","0","7">>],
     [building_num |-> <<"2","3">>, room_num |-> << >>, floor |-> << >>,
      capacity |-> << >>],
     [building_num |-> <<"2","3">>, room_num |-> <<"1","0","1">>, floor |-> <<"G">>,
      capacity |-> << >>],
     [building_num |-> <<"9">>, room_num |-> <<"B","2">>, floor |-> <<"2">>,
      capacity |-> <<"m","a","n","y">>]}

\* The WHERE clause of the SELECT.
Selected(meeting_place) ==
    \/ meeting_place # << >>
    \/ IsPrefix(<<"R","e","m","o","t","e"," ">>, meeting_place)
    \/ meeting_place # <<"O","n","l","i","n","e">>
    \/ meeting_place # <<"T","B","D"," ","I","n"," ","P","e","r","s","o",
                         "n">>

InitRooms ==
    /\ MainIdle /\ ManageIdle /\ TestsIdle /\ FieldsIdle
    /\ ScrapeIdle
    /\ LoadIdle
    /\ meeting_places \in UNION {[1..n -> PlaceNames] : n \in 0..MaxPlaces}
    /\ rooms \in SUBSET RoomNames
    /\ places = << >>
    /\ rm_idx = 0
    /\ prompts = << >>
    /\ inserted = << >>
    /\ rm_pc = "select"

RoomsRest == <<scrapeVars, mainVars, manageVars, testVars, fieldVars,
               loadVars>>

\* cursor.execute(SELECT meeting_place ...); places = cursor.fetchall()
RoomsSelect ==
    /\ rm_pc = "select"
    /\ places' = SelectSeq(meeting_places, Selected)
    /\ rm_pc' = "loop"
    /\ UNCHANGED <<meeting_places, rooms, rm_idx, prompts, inserted,
                   RoomsRest>>

\* The lookup seeing only the rows of before the call.
RoomExists_BeforeOnly(location) ==
    location \in rooms

\* SELECT 1 FROM rooms WHERE name = %s; res = cursor.fetchone()
RoomExists(location) ==
    \/ location \in rooms
    \/ \E i \in 1..Len(inserted) : inserted[i].name = location

\* int(text) of a typed number, None for a blank.
NumberOrNull(text) ==
    IF text = << >> THEN "NULL" ELSE IntOf(text)

\* One round of "for place in places".
RoomsPlace ==
    /\ rm_pc = "loop"
    /\ rm_idx < Len(places)
    /\ LET location == places[rm_idx + 1]
       IN  IF RoomExists(location)
           THEN /\ rm_idx' = rm_idx + 1
                /\ UNCHANGED <<prompts, inserted, rm_pc>>
           ELSE /\ prompts' = Append(prompts, [place |-> location,
                                              at |-> Len(inserted)])
                /\ \E a \in Answers :
                     IF a.building_num = << >>
                     THEN /\ rm_idx' = rm_idx + 1
                          /\ UNCHANGED <<inserted, rm_pc>>
                     ELSE IF \/ a.floor # << >> /\ ~IsInt(a.floor)
                             \/ a.capacity # << >> /\ ~IsInt(a.capacity)
                     THEN /\ rm_pc' = "ValueError"
                          /\ UNCHANGED <<inserted, rm_idx>>
                     ELSE /\ inserted' = Append(inserted,
                                [building_number |-> a.building_num,
                                 name |-> location,
                                 number |-> IF a.room_num = << >>
                                            THEN "NULL" ELSE a.room_num,
                                 floor |-> NumberOrNull(a.floor),
                                 capacity |-> NumberOrNull(a.capacity)])
                          /\ rm_idx' = rm_idx + 1
                          /\ UNCHANGED rm_pc
    /\ UNCHANGED <<meeting_places, rooms, places, RoomsRest>>

\* The loop is over.
RoomsReturn ==
    /\ rm_pc = "loop"
    /\ rm_idx = Len(places)
    /\ rm_pc' = "returned"
    /\ UNCHANGED <<meeting_places, rooms, places, rm_idx, prompts, inserted,
                   RoomsRest>>

NextRooms ==
    \/ RoomsSelect
    \/ RoomsPlace
    \/ RoomsReturn

SpecRooms == InitRooms /\ [][NextRooms]_vars

(***************************************************************************)
(* The handling of a Day and Time line, applied to blocks of several time  *)
(* strings.                                                                *)
(***************************************************************************)
\* The time strings of the blocks.
TimeStrings == {<<"M"," ","1","P","M">>, <<"T","u"," ","2","P","M">>, <<"W"," ","3","P","M">>, <<"T","B","A">>}

\* The time strings joined by <br>.
RECURSIVE JoinTimes(_)
JoinTimes(ts) ==
    IF Len(ts) = 1 THEN ts[1]
    ELSE ts[1] \o Br \o JoinTimes(Tail(ts))

\* A Day and Time line of the feed around the block.
DayTimeLine(ts) ==
    <<"<","b",">","D","a","y"," ","a","n","d"," ","T","i","m","e",":","<",
      "/","b",">"," ">> \o JoinTimes(ts) \o EndDiv

InitBlocks ==
    /\ MainIdle /\ ManageIdle /\ TestsIdle
    /\ ScrapeIdle
    /\ LoadIdle /\ RoomsIdle
    /\ fx_out = << >>
    /\ \E ts \in UNION {[1..n -> TimeStrings] : n \in 1..MaxTimes} :
         fx_in = [kind |-> "Block", core |-> ts, text |-> DayTimeLine(ts)]

\* What the program prints for the Day and Time line.
PrintDayTime ==
    /\ fx_in.kind = "Block"
    /\ fx_out = << >>
    /\ fx_out' = <<DayTimeOut(DayTimeList(fx_in.text))>>
    /\ UNCHANGED <<fx_in, scrapeVars, mainVars, manageVars, testVars,
                   loadVars, roomVars>>

NextBlocks ==
    \/ PrintDayTime

SpecBlocks == InitBlocks /\ [][NextBlocks]_vars

(***************************************************************************)
(* Further properties of the scraper's output.                             *)
(***************************************************************************)
\* A meeting block of the record being printed was completed by a DayTime
\* line.
MeetingDone ==
    \E j \in 1..Len(fields) :
        /\ fields[j].kind = "DayTime"
        /\ \A k \in j..Len(fields) : fields[k].kind # "Heading"

\* The step appends text that starts with a separator.
SeparatorWritten ==
    IsPrefix(f \o <<",","\n">>, f')

\* C21: the step that handles a Location line writes a separator before
\* the meeting block exactly when an earlier meeting block of the same
\* record was completed by a DayTime line; no other line writes one, so
\* none follows the last meeting of a record; and the comma flag is false
\* after every Mode line.
C21_SeparatorBetweenMeetings ==
    [][HasLine =>
          /\ Classify(ln) = "Location" => (SeparatorWritten <=> MeetingDone)
          /\ Classify(ln) # "Location" => ~SeparatorWritten
          /\ Classify(ln) = "Mode" => ~require_comma']_vars

\* The rows the claim names for one class of the document.
RECURSIVE Concat(_)
Concat(ss) ==
    IF ss = << >> THEN << >> ELSE Head(ss) \o Concat(Tail(ss))

ClassRowsDue(ci, term) ==
    LET number == JGet(ci, <<"n","u","m","b","e","r">>)
        ins == JGet(ci, <<"i","n","s","t","r","u","c","t","o","r","s">>).v
        ms == JGet(ci, <<"m","e","e","t","i","n","g","s">>).v
    IN  <<[table |-> <<"c","l","a","s","s","e","s","_">> \o Lower(term),
           vals |-> <<number, JGet(ci, <<"c","o","d","e">>), JGet(ci, <<"n","a","m",
                                                             "e">>),
                      JGet(ci, <<"m","o","d","e">>), JGet(ci, <<"l","a","s","t","_",
                                                     "u","p","d","a","t",
                                                     "e","d">>)>>]>>
        \o [i \in 1..Len(ins) |->
               [table |-> <<"i","n","s","t","r","u","c","t","o","r","s","_">> \o Lower(term),
                vals |-> <<number, ins[i]>>]]
        \o Concat([i \in 1..Len(ms) |->
               [j \in 1..(Len(ms[i].v) - 1) |->
                   [table |-> <<"m","e","e","t","i","n","g","s","_">> \o Lower(term),
                    vals |-> <<number, ms[i].v[1], ms[i].v[j + 1]>>]]])

\* The term of the load, read off the table of the first row.
RowsTerm ==
    CHOOSE term \in LoadTerms :
        rows = << >> \/ rows[1].table = <<"c","l","a","s","s","e","s","_">> \o Lower(term)

\* The meeting rows inserted.
MeetingRowsIn(rs) ==
    {i \in 1..Len(rs) : IsPrefix(<<"m","e","e","t","i","n","g","s","_">>, rs[i].table)}

\* The time strings of the DayTime blocks scraped.
RECURSIVE TimesScraped(_)
TimesScraped(log) ==
    IF log = << >> THEN 0
    ELSE (IF Head(log).kind = "DayTime" THEN Len(Head(log).vals) ELSE 0)
         + TimesScraped(Tail(log))

\* C22: a load that returns has inserted, class by class in document
\* order, one class row, one instructor row per instructor and per
\* meeting entry [place, t1] the row (place, t1), per entry
\* [place, t1, t2] the rows (place, t1) and (place, t2); so after a run
\* of the scraper over ordered pages there are as many meeting rows as
\* time strings scraped, two for a two-time DayTime block.
C22_RowsPerClass ==
    (ld_pc = "returned" /\ OrderedFeed) =>
        LET cs == JGet(JsonLoad(f).val, <<"c","l","a","s","s","e","s">>).v
        IN  /\ \A i \in 1..Len(cs) :
                 \A k \in 1..Len(JGet(cs[i], <<"m","e","e","t","i","n","g",
                                               "s">>).v) :
                     Len(JGet(cs[i], <<"m","e","e","t","i","n","g","s">>).v[k].v) \in {2, 3}
            /\ rows = Concat([i \in 1..Len(cs) |->
                                 ClassRowsDue(cs[i], RowsTerm)])
            /\ Cardinality(MeetingRowsIn(rows)) = TimesScraped(fields)

\* Record B, whose DayTime block holds two times, was scraped and loaded:
\* two meeting rows of class 202 with the one (empty) location.
C22_Witness ==
    /\ ld_pc = "returned"
    /\ \E i \in 1..(Len(rows) - 1) :
         /\ rows[i] = [table |-> <<"m","e","e","t","i","n","g","s","_","f",
                                   "a","l","l","2","0","2","2">>,
                       vals |-> <<JNum(202), JStr(<< >>), JStr(<<"T","u",
                                                                 " ","1",
                                                                 "P","M">>)>>]
         /\ rows[i + 1] = [table |-> <<"m","e","e","t","i","n","g","s","_",
                                       "f","a","l","l","2","0","2","2">>,
                           vals |-> <<JNum(202), JStr(<< >>),
                                      JStr(<<"T","h"," ","2","P","M">>)>>]
         /\ \A k \in MeetingRowsIn(rows) :
              rows[k].vals[1] = JNum(202) => k \in {i, i + 1}

\* A meeting place that is a physical location.
Physical(place) ==
    /\ place # << >>
    /\ place # <<"O","n","l","i","n","e">>
    /\ place # <<"T","B","D"," ","I","n"," ","P","e","r","s","o","n">>
    /\ ~IsPrefix(<<"R","e","m","o","t","e"," ">>, place)

\* C23: only physical locations are selected: the empty place, 'Online',
\* 'TBD In Person' and a place starting with 'Remote ' are not among the
\* places fetched, lead to no question and to no inserted room.
C23_OnlyPhysicalPlaces ==
    /\ \A i \in 1..Len(places) : Physical(places[i])
    /\ \A i \in 1..Len(prompts) : Physical(prompts[i].place)
    /\ \A i \in 1..Len(inserted) : Physical(inserted[i].name)

\* C24: the user is asked only about a place that is neither in rooms
\* before the call nor inserted earlier in it; so the names inserted are
\* pairwise different and none of them was in rooms before.
C24_RoomInsertedOnce ==
    /\ \A k \in 1..Len(prompts) :
         /\ prompts[k].place \notin rooms
         /\ \A i \in 1..prompts[k].at :
              inserted[i].name # prompts[k].place
    /\ \A i \in 1..Len(inserted) :
         /\ inserted[i].name \notin rooms
         /\ \A j \in 1..(i - 1) : inserted[j].name # inserted[i].name

\* A place listed twice was inserted at its first occurrence and asked
\* about once, and the place already in rooms was never asked about.
C24_Witness ==
    /\ rm_pc = "returned"
    /\ places = <<<<"J"," ","B","a","s","k"," ","A","u","d"," ","1","0","1">>, <<"S","o","c"," ","S","c","i"," ","1",
                                        " ","4","1","4">>, <<"J"," ","B","a",
                                                           "s","k"," ","A",
                                                           "u","d"," ","1",
                                                           "0","1">>>>
    /\ <<"S","o","c"," ","S","c","i"," ","1"," ","4","1","4">> \in rooms
    /\ Len(inserted) = 1
    /\ inserted[1].name = <<"J"," ","B","a","s","k"," ","A","u","d"," ","1",
                            "0","1">>
    /\ Len(prompts) = 1

\* C25: for a label whose lower-cased form is a key of the table, in any
\* letter case, main calls scrape_class_data with the code of that key.
C25_AnyLetterCase ==
    (HasTerm(Lower(label)) /\ m_pc # "start") =>
        /\ m_pc # "KeyError"
        /\ pc # "idle"
        /\ payload.term = TermCode(Lower(label))

\* The heading lines of the pages received with status 200.
RECURSIVE HeadingsServed(_)
HeadingsServed(pages) ==
    IF pages = << >> THEN 0
    ELSE (IF Head(pages).status = 200
          THEN Cardinality({i \in 1..Len(PageLines(Head(pages).page)) :
                  Classify(PageLines(Head(pages).page)[i]) = "Heading"})
          ELSE 0)
         + HeadingsServed(Tail(pages))

\* The records opened in the file so far.
HeadingsEmitted ==
    Cardinality({i \in 1..Len(fields) : fields[i].kind = "Heading"})

\* C26: once a progress line has taken the stop decision, the lines left
\* of the response are still handled one by one and no later progress
\* line takes the decision back; so when the loop is reached again every
\* record of every page received was emitted, those after the last
\* progress line too.
C26_FinalPageCompleted ==
    /\ [](pc \in {"loop", "fixup", "done"} =>
            HeadingsEmitted = HeadingsServed(served))
    /\ [][(pc = "lines" /\ ~keep_requesting) =>
            /\ ~keep_requesting'
            /\ HasLine => (pc' = "raised"
                           \/ (pc' = "lines" /\ ln_idx' = ln_idx + 1))]_vars

\* The run over the page with a record and a second progress line after
\* the final progress line has ended with that record emitted.
C26_Witness ==
    /\ pc = "done"
    /\ Len(served) = 1
    /\ served[1].page = "DoneAMore"
    /\ ~keep_requesting
    /\ HeadingsEmitted = 1
    /\ Last(fields).kind = "Mode"

\* The text of the records of pages MoreA and SilentB in the file, as the
\* program run on these pages leaves them.
TextA(stamp) ==
    <<" "," "," "," "," "," "," "," ","{","\n"," "," "," "," "," "," "," ",
      " "," "," "," "," ","\"","c","o","d","e","\"",":"," ","\"","C","S",
      "E","1","2","\"",",","\n"," "," "," "," "," "," "," "," "," "," "," ",
      " ","\"","n","a","m","e","\"",":"," ","\"","S","y","s","\"",",","\n",
      " "," "," "," "," "," "," "," "," "," "," "," ","\"","n","u","m","b",
      "e","r","\"",":"," ","1","0","1",",","\n"," "," "," "," "," "," "," ",
      " "," "," "," "," ","\"","i","n","s","t","r","u","c","t","o","r","s",
      "\"",":"," ","[","\n"," "," "," "," "," "," "," "," "," "," "," "," ",
      " "," "," "," ","\"","S","t","a","f","f","\"","\n"," "," "," "," ",
      " "," "," "," "," "," "," "," ","]",",","\n"," "," "," "," "," "," ",
      " "," "," "," "," "," ","\"","m","e","e","t","i","n","g","s","\"",":",
      " ","[","\n"," "," "," "," "," "," "," "," "," "," "," "," "," "," ",
      " "," ","[","\n"," "," "," "," "," "," "," "," "," "," "," "," "," ",
      " "," "," "," "," "," "," ","\"","S","o","c"," ","2","\"",",","\n",
      " "," "," "," "," "," "," "," "," "," "," "," "," "," "," "," "," ",
      " "," "," ","\"","M","W","F"," ","9","A","M","\"","\n"," "," "," ",
      " "," "," "," "," "," "," "," "," "," "," "," "," ","]","\n"," "," ",
      " "," "," "," "," "," "," "," "," "," ","]",",","\n"," "," "," "," ",
      " "," "," "," "," "," "," "," ","\"","m","o","d","e","\"",":"," ",
      "\"","I","n"," ","P","e","r","s","o","n","\"",",","\n"," "," "," ",
      " "," "," "," "," "," "," "," "," ","\"","l","a","s","t","_","u","p",
      "d","a","t","e","d","\"",":"," ","\"">>
    \o stamp \o <<"\"","\n"," "," "," "," "," "," "," "," ","}",",","\n">>

TextB(stamp) ==
    <<" "," "," "," "," "," "," "," ","{","\n"," "," "," "," "," "," "," ",
      " "," "," "," "," ","\"","c","o","d","e","\"",":"," ","\"","A","M",
      "3","\"",",","\n"," "," "," "," "," "," "," "," "," "," "," "," ",
      "\"","n","a","m","e","\"",":"," ","\"","A","&","B","\"",",","\n"," ",
      " "," "," "," "," "," "," "," "," "," "," ","\"","n","u","m","b","e",
      "r","\"",":"," ","2","0","2",",","\n"," "," "," "," "," "," "," "," ",
      " "," "," "," ","\"","i","n","s","t","r","u","c","t","o","r","s","\"",
      ":"," ","[","\n"," "," "," "," "," "," "," "," "," "," "," "," "," ",
      " "," "," ","\"","L","e","e",",","J",".","\"",",","\n"," "," "," ",
      " "," "," "," "," "," "," "," "," "," "," "," "," ","\"","S","t","a",
      "f","f","\"","\n"," "," "," "," "," "," "," "," "," "," "," "," ","]",
      ",","\n"," "," "," "," "," "," "," "," "," "," "," "," ","\"","m","e",
      "e","t","i","n","g","s","\"",":"," ","[","\n"," "," "," "," "," "," ",
      " "," "," "," "," "," "," "," "," "," ","[","\n"," "," "," "," "," ",
      " "," "," "," "," "," "," "," "," "," "," "," "," "," "," ","\"","\"",
      ",","\n"," "," "," "," "," "," "," "," "," "," "," "," "," "," "," ",
      " "," "," "," "," ","\"","T","u"," ","1","P","M","\"",",","\n"," ",
      " "," "," "," "," "," "," "," "," "," "," "," "," "," "," "," "," ",
      " "," ","\"","T","h"," ","2","P","M","\"","\n"," "," "," "," "," ",
      " "," "," "," "," "," "," "," "," "," "," ","]","\n"," "," "," "," ",
      " "," "," "," "," "," "," "," ","]",",","\n"," "," "," "," "," "," ",
      " "," "," "," "," "," ","\"","m","o","d","e","\"",":"," ","\"","H",
      "y","b","r","i","d","\"",",","\n"," "," "," "," "," "," "," "," "," ",
      " "," "," ","\"","l","a","s","t","_","u","p","d","a","t","e","d","\"",
      ":"," ","\"">>
    \o stamp \o <<"\"","\n"," "," "," "," "," "," "," "," ","}",",","\n">>

PageText(id, stamp) ==
    CASE id = "MoreA"   -> TextA(stamp)
      [] id = "SilentB" -> TextB(stamp)
      [] OTHER          -> << >>

\* C27: the file is truncated and the header written before the first
\* request; when request j fails the file holds the header followed by
\* exactly the output of pages 1..j-1, the header alone when j = 1; and
\* the earlier content of the file is lost whatever happens.
C27_FileAtFailure ==
    /\ pc = "open" => posts = << >>
    /\ pc # "open" => f[1] = "{" /\ ~IsPrefix(OldContent, f)
    /\ (posts # << >> /\ served = << >>) => f = HeaderOut
    /\ LastFailed =>
         /\ \A i \in 1..(Len(served) - 1) :
              served[i].page \in {"MoreA", "SilentB"}
         /\ f = HeaderOut
                \o Concat([i \in 1..(Len(served) - 1) |->
                              PageText(served[i].page, time)])

\* The third request failed after pages MoreA and SilentB: the file holds
\* the header and the two records.
C27_Witness ==
    /\ Len(served) = 3
    /\ served[3].status = 500
    /\ served[1].page = "MoreA"
    /\ served[2].page = "SilentB"
    /\ f = HeaderOut \o TextA(time) \o TextB(time)

\* C28: the meeting entry written for a DayTime block of n time strings
\* holds all n of them after the location, for every n >= 1.
C28_AllTimesEmitted ==
    (fx_in.kind = "Block" /\ fx_out # << >>) =>
        LET entry == JsonLoad(LocationOut(FALSE, << >>) \o fx_out[1])
        IN  /\ entry.ok
            /\ entry.val = JArr(<<JStr(<< >>)>>
                                \o [i \in 1..Len(fx_in.core) |->
                                       JStr(fx_in.core[i])])

====
